---------------------------- MODULE Spec2Model ----------------------------
(***************************************************************************)
(* Verification model of the CPU code generator (codegen_cpu.cc):          *)
(*   - the per-task iteration ranges of a parallel-for (run time),         *)
(*   - struct field addressing and tagged-value payload stores (run time), *)
(*   - closure packing / unpacking,                                        *)
(*   - the lowering visitor with its compile-time context, and the         *)
(*     execution of the control flow it emits,                             *)
(* and of the pass infrastructure (ir/transform.cc):                       *)
(*   - the thread's stack of pass contexts and their instruments,          *)
(*   - a pass and a Sequential run under a context.                        *)
(* Each part has its own specification over its own group of variables;    *)
(* the other groups keep their initial value.                              *)
(***************************************************************************)
EXTENDS Integers, Sequences, FiniteSets, TLC

(***************************************************************************)
(* Bounds of the model.                                                    *)
(***************************************************************************)
\* width in bits of the loop extent's signed integer type (DataType t)
IntBits == 5
\* largest num_task the thread pool hands to the closure
MaxTask == 3

(***************************************************************************)
(* w-bit two's complement arithmetic of the lowered PrimExprs.             *)
(***************************************************************************)
Pow2(n) == 2 ^ n

MaxInt == Pow2(IntBits - 1) - 1

MinInt == 0 - Pow2(IntBits - 1)

IntRange == MinInt .. MaxInt

Wrap(x) == ((x + Pow2(IntBits - 1)) % Pow2(IntBits)) - Pow2(IntBits - 1)

Abs(x) == IF x < 0 THEN 0 - x ELSE x

\* C-style division, rounding towards zero (operator/ on integer PrimExprs)
TruncDiv(a, b) ==
  IF (a < 0) = (b < 0) THEN Abs(a) \div Abs(b) ELSE 0 - (Abs(a) \div Abs(b))

Min(a, b) == IF a < b THEN a ELSE b

(***************************************************************************)
(* Variables.                                                              *)
(***************************************************************************)
VARIABLES
  rt_extent,      \* run time: op->extent of the parallel-for
  rt_num_task,    \* run time: num_task read from the parallel group env
  rt_stride,      \* parallel_env_.stride_pattern the loop was lowered under
  task,           \* run time: per task id, the state of its sub-range loop
  ptr_bytes,      \* data_layout_: size in bytes of a pointer on the target
  mem,            \* run time: the bytes of the descriptor and tagged-value arrays
  last_op,        \* the last struct intrinsic lowered and run: its arguments,
                  \* the TypedPointer it got and the value it stored or loaded
  struct_fatal,   \* a struct intrinsic ended lowering with a fatal error
  cg,             \* the code generator: context, module and open handlers
  run_pc,         \* run time: whether the generated PrimFunc is running
  frames,         \* run time: the call stack of generated functions
  cells,          \* run time: the handle cache cells of the module
  last_ret,       \* run time: the last return of a generated function
  closure,        \* a closure record: its variables, its memory, its unpacking
  sys,            \* a generation session: its registration set-up, the
                  \* exported-symbol table and the startup function
  scope,          \* a compute scope being outlined: the arguments of its
                  \* function and the attributes set so far
  pass            \* the pass infrastructure (ir/transform.cc): the thread's
                  \* context stack, the instruments of each context, and
                  \* the Sequential that runs

partVars == <<rt_extent, rt_num_task, rt_stride, task>>

structVars == <<ptr_bytes, mem, last_op, struct_fatal>>

genVars == <<cg>>

runVars == <<run_pc, frames, cells, last_ret>>

closureVars == <<closure>>

sysVars == <<sys>>

scopeVars == <<scope>>

passVars == <<pass>>

\* the parts modelled apart from the code generator
extVars == <<scopeVars, passVars>>

vars == <<rt_extent, rt_num_task, rt_stride, task,
          ptr_bytes, mem, last_op, struct_fatal,
          cg, run_pc, frames, cells, last_ret, closure, sys, scope, pass>>

\* what the actions of one part leave alone
notPart == <<structVars, genVars, runVars, closureVars, sysVars, extVars>>

notStruct == <<partVars, genVars, runVars, closureVars, sysVars, extVars>>

notGen == <<partVars, structVars, runVars, closureVars, sysVars, extVars>>

notRun == <<partVars, structVars, genVars, closureVars, sysVars, extVars>>

notClosure == <<partVars, structVars, genVars, runVars, sysVars, extVars>>

notSys == <<partVars, structVars, genVars, runVars, closureVars, extVars>>

notScope == <<partVars, structVars, genVars, runVars, closureVars, sysVars, passVars>>

notPass == <<partVars, structVars, genVars, runVars, closureVars, sysVars, scopeVars>>

(***************************************************************************)
(* Parallel-for inside an active environment: the bounds of the serial     *)
(* loop each task runs (VisitStmt_ of ForNode, else branch).                *)
(***************************************************************************)
\* PrimExpr step = (op->extent + num_task - make_const(t, 1)) / num_task
BlockStep(ext, ntask) == TruncDiv(Wrap(Wrap(ext + ntask) - 1), ntask)

\* PrimExpr begin = min(task_id * step, op->extent)
BlockBegin(ext, ntask, tid) == Min(Wrap(tid * BlockStep(ext, ntask)), ext)

\* PrimExpr end = min((task_id + make_const(t, 1)) * step, op->extent)
BlockEnd(ext, ntask, tid) ==
  Min(Wrap(Wrap(tid + 1) * BlockStep(ext, ntask)), ext)

\* the (begin, end, stride) handed to CreateSerialFor
ParallelForBounds(stride, ext, ntask, tid) ==
  IF stride
  THEN [begin |-> tid, end |-> ext, stride |-> ntask]
  ELSE [begin |-> BlockBegin(ext, ntask, tid),
        end |-> BlockEnd(ext, ntask, tid),
        stride |-> 1]

\* CreateSerialFor: loop_value starts at begin, runs while loop_value < end,
\* and is advanced by stride after the body
SerialForCond(i, end) == i < end

SerialForNext(i, stride) == Wrap(i + stride)

IdleTask == [pc |-> "idle", begin |-> 0, end |-> 0, stride |-> 0, i |-> 0,
             visited |-> {}]

PartIdle ==
  /\ rt_extent = 0
  /\ rt_num_task = 1
  /\ rt_stride = FALSE
  /\ task = [t \in 0 .. MaxTask - 1 |-> IdleTask]

PartStart ==
  /\ rt_extent \in 0 .. MaxInt
  /\ rt_num_task \in 1 .. MaxTask
  /\ rt_stride \in BOOLEAN
  /\ task = [t \in 0 .. MaxTask - 1 |-> IdleTask]

\* the closure is entered for task tid: the loop bounds are evaluated
TaskBegin(tid) ==
  /\ tid < rt_num_task
  /\ task[tid].pc = "idle"
  /\ LET b == ParallelForBounds(rt_stride, rt_extent, rt_num_task, tid)
     IN task' = [task EXCEPT ![tid] =
                   [pc |-> "loop", begin |-> b.begin, end |-> b.end,
                    stride |-> b.stride, i |-> b.begin, visited |-> {}]]
  /\ UNCHANGED <<rt_extent, rt_num_task, rt_stride>>
  /\ UNCHANGED notPart

\* one iteration of the serial loop: the body runs with loop_var = i
TaskIter(tid) ==
  /\ task[tid].pc = "loop"
  /\ SerialForCond(task[tid].i, task[tid].end)
  /\ task' = [task EXCEPT ![tid].visited = @ \cup {task[tid].i},
                          ![tid].i = SerialForNext(@, task[tid].stride)]
  /\ UNCHANGED <<rt_extent, rt_num_task, rt_stride>>
  /\ UNCHANGED notPart

\* the loop condition fails: for_end
TaskEnd(tid) ==
  /\ task[tid].pc = "loop"
  /\ ~SerialForCond(task[tid].i, task[tid].end)
  /\ task' = [task EXCEPT ![tid].pc = "done"]
  /\ UNCHANGED <<rt_extent, rt_num_task, rt_stride>>
  /\ UNCHANGED notPart

PartNext ==
  \E tid \in 0 .. MaxTask - 1 :
    \/ TaskBegin(tid)
    \/ TaskIter(tid)
    \/ TaskEnd(tid)

Tasks == 0 .. rt_num_task - 1

AllBegun == \A t \in Tasks : task[t].pc # "idle"

AllDone == \A t \in Tasks : task[t].pc = "done"

\* the indices of [0, extent) congruent to t modulo num_task
Residue(t) == {i \in 0 .. rt_extent - 1 : i % rt_num_task = t}

(***************************************************************************)
(* Runtime ABI types (CodeGenCPU::Init) and their layout in memory.        *)
(* A type is [name, size, align]; a struct type also lists its fields.     *)
(***************************************************************************)
\* largest index of a struct-set / struct-get into an array
MaxIndex == 1

T_int8 == [name |-> "i8", size |-> 1, align |-> 1]

T_int16 == [name |-> "i16", size |-> 2, align |-> 2]

T_int32 == [name |-> "i32", size |-> 4, align |-> 4]

T_int64 == [name |-> "i64", size |-> 8, align |-> 8]

T_float64 == [name |-> "f64", size |-> 8, align |-> 8]

\* t_int_ is the C int
T_int == T_int32

\* the targets' pointer sizes in bytes
PtrSizes == {4, 8}

PtrType(pb) == [name |-> "ptr", size |-> pb, align |-> pb]

AlignUp(x, a) == ((x + a - 1) \div a) * a

MaxOf(S) == CHOOSE m \in S : \A x \in S : x <= m

\* llvm::StructType::create(fields): offset of the i-th field (from 1), every
\* field at the next multiple of its alignment
RECURSIVE FieldOffset(_, _)
FieldOffset(fields, i) ==
  IF i = 1 THEN 0
  ELSE AlignUp(FieldOffset(fields, i - 1) + fields[i - 1].size, fields[i].align)

StructAlign(fields) == MaxOf({fields[i].align : i \in 1 .. Len(fields)})

StructSize(fields) ==
  AlignUp(FieldOffset(fields, Len(fields)) + fields[Len(fields)].size,
          StructAlign(fields))

StructType(nm, fields) ==
  [name |-> nm, size |-> StructSize(fields), align |-> StructAlign(fields),
   fields |-> fields,
   offsets |-> [i \in 1 .. Len(fields) |-> FieldOffset(fields, i)]]

\* t_tvm_device_ = {t_int_, t_int_}
T_tvm_device == StructType("DLDevice", <<T_int, T_int>>)

\* t_tvm_type_ = {t_int8_, t_int8_, t_int16_}
T_tvm_type == StructType("DLDataType", <<T_int8, T_int8, T_int16>>)

\* t_tvm_array_ = {void*, device, int, dtype, shape*, strides*, int64}, for
\* each pointer size
ArrayTypes ==
  [pb \in PtrSizes |->
     StructType("DLTensor", <<PtrType(pb), T_tvm_device, T_int, T_tvm_type,
                              PtrType(pb), PtrType(pb), T_int64>>)]

\* t_tvm_ffi_any_ = {t_int32_, t_int32_, t_float64_}
T_tvm_ffi_any == StructType("TVMFFIAny", <<T_int32, T_int32, T_float64>>)

T_void_p == PtrType(ptr_bytes)

T_tvm_array == ArrayTypes[ptr_bytes]

\* CreateInBoundsGEP(type, buf, {index, path...}): path holds the 0-based
\* field numbers as written in the source
RECURSIVE PathOffset(_, _)
PathOffset(ty, path) ==
  IF path = <<>> THEN 0
  ELSE ty.offsets[path[1] + 1] + PathOffset(ty.fields[path[1] + 1], Tail(path))

RECURSIVE PathType(_, _)
PathType(ty, path) ==
  IF path = <<>> THEN ty ELSE PathType(ty.fields[path[1] + 1], Tail(path))

GEP(ty, buf, index, path) ==
  [region |-> buf.region, off |-> buf.off + index * ty.size + PathOffset(ty, path)]

(***************************************************************************)
(* CreateStructRefPtr(t, buf, index, kind).                                *)
(***************************************************************************)
\* builtin::TVMStructFieldKind below kArrKindBound_
ArrKinds == {"kArrAddr", "kArrData", "kArrShape", "kArrStrides", "kArrNDim",
             "kArrTypeCode", "kArrTypeBits", "kArrTypeLanes",
             "kArrByteOffset", "kArrDeviceId", "kArrDeviceType"}

AnyKinds == {"kTVMFFIAnyTypeIndex", "kTVMFFIAnyUnionValue"}

\* "kUnknown" stands for any field code the switch has no case for
Kinds == ArrKinds \cup AnyKinds \cup {"kUnknown"}

\* DataType t of the access: [code, bits, lanes]
DT_bool == [code |-> "bool", bits |-> 1, lanes |-> 1]

DT_int64 == [code |-> "int", bits |-> 64, lanes |-> 1]

DT_int32 == [code |-> "int", bits |-> 32, lanes |-> 1]

DT_float64 == [code |-> "float", bits |-> 64, lanes |-> 1]

DT_handle == [code |-> "handle", bits |-> 64, lanes |-> 1]

DTypes == {DT_bool, DT_int64, DT_int32, DT_float64, DT_handle}

DT_float32 == [code |-> "float", bits |-> 32, lanes |-> 1]

DT_uint64 == [code |-> "uint", bits |-> 64, lanes |-> 1]

DT_int64x2 == [code |-> "int", bits |-> 64, lanes |-> 2]

\* more types a struct-get of the payload is asked for
OtherDTypes == {DT_float32, DT_uint64, DT_int64x2}

NoAddr == [region |-> "none", off |-> 0]

\* LOG(FATAL) or a failed ICHECK: no pointer is returned
FatalRef == [fatal |-> TRUE, type |-> "none", size |-> 0, addr |-> NoAddr]

TypedPointer(ty, a) ==
  [fatal |-> FALSE, type |-> ty.name, size |-> ty.size, addr |-> a]

\* a faulty switch: the shape and strides cases exchanged
ArrPathSwapped(kind) ==
  CASE kind = "kArrShape" -> <<5>>
    [] kind = "kArrStrides" -> <<4>>
    [] kind = "kArrData" -> <<0>>
    [] kind = "kArrNDim" -> <<2>>
    [] kind = "kArrTypeCode" -> <<3, 0>>
    [] kind = "kArrTypeBits" -> <<3, 1>>
    [] kind = "kArrTypeLanes" -> <<3, 2>>
    [] kind = "kArrByteOffset" -> <<6>>
    [] kind = "kArrDeviceId" -> <<1, 1>>
    [] kind = "kArrDeviceType" -> <<1, 0>>

\* the case of the switch for a descriptor field: the GEP path it uses
ArrPath(kind) ==
  CASE kind = "kArrData" -> <<0>>
    [] kind = "kArrShape" -> <<4>>
    [] kind = "kArrStrides" -> <<5>>
    [] kind = "kArrNDim" -> <<2>>
    [] kind = "kArrTypeCode" -> <<3, 0>>
    [] kind = "kArrTypeBits" -> <<3, 1>>
    [] kind = "kArrTypeLanes" -> <<3, 2>>
    [] kind = "kArrByteOffset" -> <<6>>
    [] kind = "kArrDeviceId" -> <<1, 1>>
    [] kind = "kArrDeviceType" -> <<1, 0>>

\* a faulty payload case: a type not listed is given the 64-bit integer
\* pointer
UnionValueRefProceeds(t, a) ==
  IF t.lanes # 1 THEN FatalRef
  ELSE IF t.code = "bool" THEN TypedPointer(T_int8, a)
  ELSE IF t.code = "float" /\ t.bits = 64 THEN TypedPointer(T_float64, a)
  ELSE IF t.code = "handle" THEN TypedPointer(T_void_p, a)
  ELSE TypedPointer(T_int64, a)

\* case builtin::kTVMFFIAnyUnionValue: the element type chosen by t; the
\* else branch logs and falls through to default: LOG(FATAL)
UnionValueRef(t, a) ==
  IF t.lanes # 1 THEN FatalRef
  ELSE IF t.code = "bool" THEN TypedPointer(T_int8, a)
  ELSE IF t.code = "int" /\ t.bits = 64 THEN TypedPointer(T_int64, a)
  ELSE IF t.code = "float" /\ t.bits = 64 THEN TypedPointer(T_float64, a)
  ELSE IF t.code = "handle" THEN TypedPointer(T_void_p, a)
  ELSE FatalRef

CreateStructRefPtr(t, buf, index, kind) ==
  IF kind \in ArrKinds /\ buf.ty \notin {"void*", "DLTensor*"} THEN FatalRef
  ELSE IF kind = "kArrAddr"
    THEN TypedPointer(T_tvm_array, GEP(T_tvm_array, buf, index, <<>>))
  ELSE IF kind \in ArrKinds
    THEN TypedPointer(PathType(T_tvm_array, ArrPath(kind)),
                      GEP(T_tvm_array, buf, index, ArrPath(kind)))
  ELSE IF kind = "kTVMFFIAnyTypeIndex"
    THEN TypedPointer(T_int32, GEP(T_tvm_ffi_any, buf, index, <<0>>))
  ELSE IF kind = "kTVMFFIAnyUnionValue"
    THEN UnionValueRef(t, GEP(T_tvm_ffi_any, buf, index, <<2>>))
  ELSE FatalRef

(***************************************************************************)
(* Memory: two arrays of MaxIndex + 1 elements, "arr" of array descriptors *)
(* and "args" of tagged values, as bytes in little-endian order.           *)
(***************************************************************************)
RegionSize(r) ==
  IF r = "arr" THEN (MaxIndex + 1) * T_tvm_array.size
  ELSE (MaxIndex + 1) * T_tvm_ffi_any.size

\* builder_->CreateStore(value, addr): the bytes of value, lowest first
Store(m, a, bytes) ==
  [m EXCEPT ![a.region] =
     [o \in DOMAIN m[a.region] |->
        IF o >= a.off /\ o < a.off + Len(bytes)
        THEN bytes[o - a.off + 1] ELSE m[a.region][o]]]

\* builder_->CreateLoad(type, addr)
Load(m, a, n) == [i \in 1 .. n |-> m[a.region][a.off + i - 1]]

Zeros(n) == [i \in 1 .. n |-> 0]

\* ConstInt64(0)
Zero64 == Zeros(T_int64.size)

\* the buffers a struct intrinsic is handed (op->args[0])
Bufs == {[region |-> "arr", off |-> 0, ty |-> "DLTensor*"],
         [region |-> "arr", off |-> 0, ty |-> "void*"],
         [region |-> "args", off |-> 0, ty |-> "void*"],
         [region |-> "args", off |-> 0, ty |-> "TVMFFIAny*"]}

\* a struct intrinsic addresses a descriptor field in the descriptor array and
\* a tagged-value field in the tagged-value array
WellTyped(buf, kind) ==
  /\ kind \in ArrKinds => (buf.region = "arr" \/ buf.ty = "TVMFFIAny*")
  /\ kind \in AnyKinds => buf.region = "args"

\* the values a struct-set stores: [dtype, bytes]
PayloadValues ==
  {[dtype |-> DT_bool, bytes |-> <<1>>],
   [dtype |-> DT_int64, bytes |-> <<1, 2, 3, 4, 5, 6, 7, 8>>],
   [dtype |-> DT_handle, bytes |-> [i \in 1 .. ptr_bytes |-> 16 * i]],
   [dtype |-> DT_int32, bytes |-> <<7, 0, 0, 0>>]}

FieldValue(kind) ==
  LET ty == IF kind = "kTVMFFIAnyTypeIndex" THEN T_int32
            ELSE PathType(T_tvm_array, ArrPath(kind))
  IN [dtype |-> IF ty.name = "ptr" THEN DT_handle ELSE DT_int32,
      bytes |-> [i \in 1 .. ty.size |-> 9]]

\* the kinds and values the struct-sets of the model store
SetValues(kind) ==
  IF kind = "kTVMFFIAnyUnionValue" THEN PayloadValues
  ELSE IF kind \in {"kArrAddr", "kUnknown"}
    THEN {[dtype |-> DT_handle, bytes |-> Zeros(ptr_bytes)]}
  ELSE {FieldValue(kind)}

\* the address a buffer pointer holds
BaseOf(buf) == [region |-> buf.region, off |-> buf.off]

NoValue == [dtype |-> DT_int32, bytes |-> <<>>]

NoOp == [op |-> "none", t |-> DT_int32, base |-> NoAddr,
         index |-> 0, kind |-> "none", ref |-> FatalRef, value |-> NoValue]

StructIdle ==
  /\ ptr_bytes = 8
  /\ mem = [r \in {"arr", "args"} |-> [o \in 0 .. 0 |-> 0]]
  /\ last_op = NoOp
  /\ struct_fatal = FALSE

\* the target has 32-bit or 64-bit pointers; no byte of memory is zero yet
StructStart ==
  /\ ptr_bytes \in PtrSizes
  /\ mem = [r \in {"arr", "args"} |-> [o \in 0 .. RegionSize(r) - 1 |-> 255]]
  /\ last_op = NoOp
  /\ struct_fatal = FALSE

\* a faulty struct-set: the payload is cleared only when a pointer is stored
NeedsZeroFillHandleOnly(ref, kind) ==
  kind = "kTVMFFIAnyUnionValue" /\ ref.type = "ptr" /\ ref.size # 8

\* tvm_struct_set: "clear off the union value to zero if the set size is less
\* than 64 bits"
NeedsZeroFill(ref, kind) ==
  kind = "kTVMFFIAnyUnionValue" /\ ref.size # 8

\* the stores tvm_struct_set emits, executed on memory m
StructSetStores(m, ref, kind, bytes) ==
  LET cleared == IF NeedsZeroFill(ref, kind) THEN Store(m, ref.addr, Zero64)
                 ELSE m
  IN Store(cleared, ref.addr, bytes)

\* CreateIntrinsic, tvm_struct_set(buf, index, kind, value), and the run of
\* the stores it emits
StructSet(v, buf, index, kind) ==
  /\ ~struct_fatal
  /\ WellTyped(buf, kind)
  /\ LET ref == CreateStructRefPtr(v.dtype, buf, index, kind)
     IN IF ref.fatal \/ kind = "kArrAddr"
        THEN /\ struct_fatal' = TRUE
             /\ last_op' = [op |-> "fatal", t |-> v.dtype, base |-> BaseOf(buf),
                            index |-> index, kind |-> kind, ref |-> ref,
                            value |-> v]
             /\ UNCHANGED mem
        ELSE /\ mem' = StructSetStores(mem, ref, kind, v.bytes)
             /\ last_op' = [op |-> "set", t |-> v.dtype, base |-> BaseOf(buf),
                            index |-> index, kind |-> kind, ref |-> ref,
                            value |-> v]
             /\ UNCHANGED struct_fatal
  /\ UNCHANGED ptr_bytes
  /\ UNCHANGED notStruct

\* CreateCast(DataType::Int(64), DataType::Bool(), value): value != 0
CastToBool(bytes) ==
  IF \E i \in 1 .. Len(bytes) : bytes[i] # 0 THEN <<1>> ELSE <<0>>

\* the value tvm_struct_get(buf, index, kind) of type t yields on memory m
StructGetValue(m, t, ref, kind) ==
  IF kind = "kArrAddr" THEN [dtype |-> DT_handle, bytes |-> <<ref.addr.off>>]
  ELSE IF t = DT_bool
    THEN [dtype |-> t, bytes |-> CastToBool(Load(m, ref.addr, ref.size))]
  ELSE [dtype |-> t, bytes |-> Load(m, ref.addr, ref.size)]

\* the DataType a struct-get of a field is given (op->dtype)
GetDTypes(kind) ==
  IF kind = "kTVMFFIAnyUnionValue" THEN DTypes \cup OtherDTypes
  ELSE IF kind \in {"kArrAddr", "kUnknown"} THEN {DT_handle}
  ELSE {FieldValue(kind).dtype}

\* CreateIntrinsic, tvm_struct_get(buf, index, kind), and the run of the load
StructGet(t, buf, index, kind) ==
  /\ ~struct_fatal
  /\ WellTyped(buf, kind)
  /\ LET ref == CreateStructRefPtr(t, buf, index, kind)
     IN IF ref.fatal
        THEN /\ struct_fatal' = TRUE
             /\ last_op' = [op |-> "fatal", t |-> t, base |-> BaseOf(buf),
                            index |-> index, kind |-> kind, ref |-> ref,
                            value |-> NoValue]
        ELSE /\ last_op' = [op |-> "get", t |-> t, base |-> BaseOf(buf),
                            index |-> index, kind |-> kind, ref |-> ref,
                            value |-> StructGetValue(mem, t, ref, kind)]
             /\ UNCHANGED struct_fatal
  /\ UNCHANGED <<ptr_bytes, mem>>
  /\ UNCHANGED notStruct

\* struct-sets and struct-gets of the tagged values
StructNext ==
  \E buf \in Bufs, index \in 0 .. MaxIndex, kind \in AnyKinds \cup {"kUnknown"} :
    \/ \E v \in SetValues(kind) : StructSet(v, buf, index, kind)
    \/ \E t \in GetDTypes(kind) : StructGet(t, buf, index, kind)

\* struct-gets of every field, struct-sets of two descriptor fields
FieldNext ==
  \E buf \in Bufs, index \in 0 .. MaxIndex :
    \/ \E kind \in {"kArrAddr", "kArrData", "kArrNDim"} :
         \E v \in SetValues(kind) : StructSet(v, buf, index, kind)
    \/ \E kind \in Kinds :
         \E t \in GetDTypes(kind) : StructGet(t, buf, index, kind)

(***************************************************************************)
(* Closure records: PackClosureData stores the captured variables into a   *)
(* struct allocated in the function entry, UnpackClosureData loads them    *)
(* back in the closure function.                                           *)
(***************************************************************************)
\* largest number of captured variables
MaxFields == 3

ClosureVars == 1 .. MaxFields

\* the llvm types of the captured values
ClosureTypes == {T_int8, T_int32, T_float64}

\* the value of variable x, of type ty, at run time
ValueOf(x, ty) == [type |-> ty, bytes |-> [i \in 1 .. ty.size |-> 16 * x + i]]

\* Array<Var> vfields: lists of distinct variables
VarLists ==
  {s \in UNION {[1 .. n -> ClosureVars] : n \in 0 .. MaxFields} :
     \A i, j \in DOMAIN s : i # j => s[i] # s[j]}

NullAddr == [region |-> "null", off |-> 0]

NoVmap == [x \in {} |-> 0]

ClosureOf(pc, vm, vf) ==
  [pc |-> pc, var_map_ |-> vm, vfields |-> vf,
   cdata |-> [type |-> T_int8, addr |-> NullAddr], num_bytes |-> 0,
   alloca |-> [r \in {"closure"} |-> <<>>], vmap |-> NoVmap]

ClosureIdle ==
  closure = ClosureOf("idle", [x \in ClosureVars |-> ValueOf(x, T_int8)], <<>>)

\* the variables are bound in var_map_ and the free variables of the body
\* are listed
ClosureStart ==
  \E tys \in [ClosureVars -> ClosureTypes], vf \in VarLists :
    closure = ClosureOf("bound", [x \in ClosureVars |-> ValueOf(x, tys[x])], vf)

\* the stores of PackClosureData from field i on, run on memory m
RECURSIVE PackStores(_, _, _, _, _, _)
PackStores(m, ctype, cvalue, vm, vfields, i) ==
  IF i > Len(vfields) THEN m
  ELSE PackStores(Store(m, GEP(ctype, cvalue, 0, <<i - 1>>), vm[vfields[i]].bytes),
                  ctype, cvalue, vm, vfields, i + 1)

\* PackClosureData(vfields, &num_bytes, struct_name) and the run of its stores
PackClosureData(c) ==
  IF Len(c.vfields) = 0
  THEN [c EXCEPT !.pc = "packed", !.num_bytes = 0,
                 !.cdata = [type |-> T_void_p, addr |-> NullAddr]]
  ELSE LET ctype == StructType("closure",
                               [i \in 1 .. Len(c.vfields) |->
                                  c.var_map_[c.vfields[i]].type])
           cvalue == [region |-> "closure", off |-> 0]
           fresh == [r \in {"closure"} |-> [o \in 0 .. ctype.size - 1 |-> 255]]
       IN [c EXCEPT !.pc = "packed", !.num_bytes = ctype.size,
                    !.cdata = [type |-> ctype, addr |-> cvalue],
                    !.alloca = PackStores(fresh, ctype, cvalue, c.var_map_,
                                          c.vfields, 1)]

\* a faulty unpack: every variable is loaded from field 0
UnpackFirstField(m, cdata, vfields) ==
  [x \in {vfields[i] : i \in 1 .. Len(vfields)} |->
     [type |-> cdata.type.fields[1],
      bytes |-> Load(m, GEP(cdata.type, cdata.addr, 0, <<0>>),
                     cdata.type.fields[1].size)]]

\* UnpackClosureData(cdata, vfields, vmap) and the run of its loads on m
UnpackClosureData(m, cdata, vfields) ==
  [x \in {vfields[i] : i \in 1 .. Len(vfields)} |->
     LET i == CHOOSE k \in 1 .. Len(vfields) : vfields[k] = x
     IN [type |-> cdata.type.fields[i],
         bytes |-> Load(m, GEP(cdata.type, cdata.addr, 0, <<i - 1>>),
                        cdata.type.fields[i].size)]]

Pack ==
  /\ closure.pc = "bound"
  /\ closure' = PackClosureData(closure)
  /\ UNCHANGED notClosure

Unpack ==
  /\ closure.pc = "packed"
  /\ closure' = [closure EXCEPT
                   !.pc = "unpacked",
                   !.vmap = UnpackClosureData(closure.alloca, closure.cdata,
                                              closure.vfields)]
  /\ UNCHANGED notClosure

ClosureNext == Pack \/ Unpack

(***************************************************************************)
(* The generation session and its exported-symbol table: Init, the         *)
(* AddFunction calls of one module, AddStartupFunction at finalization.    *)
(***************************************************************************)
\* number of PrimFuncs added to one module
MaxFuncs == 3

\* number of modules one code generator object builds
MaxModules == 2

\* the values of the kGlobalSymbol attribute
Symbols == {"a", "b"}

\* the PrimFunc has no kGlobalSymbol attribute
NoSymbol == "none"

\* system_lib_prefix_.value_or("") + symbol::tvm_ffi_library_ctx
CtxSymbol == "ctx"

\* the session before Init: added and inits are kept for the record
SysOf(pc) ==
  [pc |-> pc, system_lib_prefix_ |-> FALSE,
   f_tvm_register_system_symbol_ |-> FALSE, target_c_runtime_ |-> FALSE,
   export_system_symbols_ |-> <<>>, nfuncs |-> 0, added |-> <<>>,
   startup |-> [emitted |-> FALSE, calls |-> <<>>], inits |-> 0]

SysIdle == sys = SysOf("idle")

SysStart == sys = SysOf("new")

\* InitGlobalContext(dynamic_lookup): the module context is the first entry
InitGlobalContext(s, dynamic_lookup) ==
  IF s.f_tvm_register_system_symbol_ /\ ~s.target_c_runtime_
  THEN [s EXCEPT !.export_system_symbols_ =
                    Append(@, [name |-> CtxSymbol, value |-> 0])]
  ELSE s

\* Init(module_name, llvm_target, system_lib_prefix, dynamic_lookup,
\* target_c_runtime): a new module
SysInit(s, system_lib_prefix, dynamic_lookup, target_c_runtime) ==
  InitGlobalContext(
    [s EXCEPT !.pc = "init",
              !.system_lib_prefix_ = system_lib_prefix,
              !.export_system_symbols_ = <<>>,
              !.f_tvm_register_system_symbol_ =
                 system_lib_prefix /\ ~target_c_runtime,
              !.target_c_runtime_ = target_c_runtime,
              !.nfuncs = 0, !.added = <<>>,
              !.startup = [emitted |-> FALSE, calls |-> <<>>],
              !.inits = @ + 1],
    dynamic_lookup)

\* a faulty AddFunction: the function is exported whether or not it has the
\* attribute
ExportAlways(s, global_symbol) ==
  IF s.f_tvm_register_system_symbol_
  THEN Append(s.export_system_symbols_,
              [name |-> global_symbol, value |-> s.nfuncs + 1])
  ELSE s.export_system_symbols_

\* the table after AddFunction of a PrimFunc with that attribute
Export(s, global_symbol) ==
  IF s.f_tvm_register_system_symbol_ /\ global_symbol # NoSymbol
  THEN Append(s.export_system_symbols_,
              [name |-> global_symbol, value |-> s.nfuncs + 1])
  ELSE s.export_system_symbols_

\* AddFunction(gvar, func): function_ is the function just created
SysAddFunction(s, global_symbol) ==
  [s EXCEPT !.export_system_symbols_ = Export(s, global_symbol),
            !.nfuncs = @ + 1,
            !.added = Append(@, global_symbol)]

\* the loop of AddStartupFunction: one call per entry, in order
RECURSIVE StartupCalls(_)
StartupCalls(kvs) ==
  IF kvs = <<>> THEN <<>>
  ELSE <<[callee |-> "TVMBackendRegisterSystemLibSymbol",
          name |-> Head(kvs).name, ptr |-> Head(kvs).value]>>
         \o StartupCalls(Tail(kvs))

\* AddStartupFunction()
AddStartupFunction(s) ==
  IF ~s.target_c_runtime_
  THEN [s EXCEPT !.pc = "final",
                 !.startup = [emitted |-> TRUE,
                              calls |-> StartupCalls(s.export_system_symbols_)]]
  ELSE [s EXCEPT !.pc = "final"]

SessionInit(system_lib_prefix, dynamic_lookup, target_c_runtime) ==
  /\ sys.pc \in {"new", "final"}
  /\ sys.inits < MaxModules
  /\ sys' = SysInit(sys, system_lib_prefix, dynamic_lookup, target_c_runtime)
  /\ UNCHANGED notSys

SessionAddFunction(global_symbol) ==
  /\ sys.pc = "init"
  /\ sys.nfuncs < MaxFuncs
  /\ sys' = SysAddFunction(sys, global_symbol)
  /\ UNCHANGED notSys

SessionFinish ==
  /\ sys.pc = "init"
  /\ sys' = AddStartupFunction(sys)
  /\ UNCHANGED notSys

StartupNext ==
  \/ \E system_lib_prefix \in BOOLEAN, dynamic_lookup \in BOOLEAN,
        target_c_runtime \in BOOLEAN :
        SessionInit(system_lib_prefix, dynamic_lookup, target_c_runtime)
  \/ \E global_symbol \in Symbols \cup {NoSymbol} :
        SessionAddFunction(global_symbol)
  \/ SessionFinish

(***************************************************************************)
(* Compute-scope outlining: the attributes CreateComputeScope sets on the  *)
(* function it creates, one argument at a time.                            *)
(***************************************************************************)
\* the variables a compute scope's body may use: buffers and a scalar
ScopeVarNames == {"A", "B", "n"}

\* var.dtype().is_handle()
IsHandle(v) == v \in {"A", "B"}

\* tir::UndefinedVars(op->body, {}): any list of distinct variables
ScopeArgLists ==
  {<<>>} \cup {<<a>> : a \in ScopeVarNames}
    \cup {<<a, b>> : <<a, b>> \in {x \in ScopeVarNames \X ScopeVarNames : x[1] # x[2]}}
    \cup {<<a, b, c>> : <<a, b, c>> \in
            {x \in ScopeVarNames \X ScopeVarNames \X ScopeVarNames :
               x[1] # x[2] /\ x[1] # x[3] /\ x[2] # x[3]}}

NoScope ==
  [pc |-> "idle", vargs |-> <<>>, alias_var_set_ |-> {}, idx |-> 0,
   NoAlias |-> {}, NoInline |-> FALSE]

ScopeIdle == scope = NoScope


\* llvm::Function::Create(ftype, InternalLinkage, name, module_): fcompute
\* has one parameter per free variable and no attribute yet
CreateComputeFunction(vargs, alias_var_set_) ==
  /\ scope.pc = "idle"
  /\ scope' = [NoScope EXCEPT !.pc = "args", !.vargs = vargs,
                              !.alias_var_set_ = alias_var_set_]
  /\ UNCHANGED notScope

\* one round of the loop over fcompute's arguments
SetArgAttrs ==
  /\ scope.pc = "args"
  /\ scope.idx < Len(scope.vargs)
  /\ LET var == scope.vargs[scope.idx + 1]
     IN scope' =
          IF IsHandle(var) /\ var \notin scope.alias_var_set_
          THEN [scope EXCEPT !.idx = @ + 1, !.NoAlias = @ \cup {scope.idx},
                             !.NoInline = TRUE]
          ELSE [scope EXCEPT !.idx = @ + 1]
  /\ UNCHANGED notScope

\* the loop is left: function_ = fcompute and the body is visited
EnterComputeBody ==
  /\ scope.pc = "args"
  /\ scope.idx = Len(scope.vargs)
  /\ scope' = [scope EXCEPT !.pc = "body"]
  /\ UNCHANGED notScope

ScopeNext ==
  \/ \E vargs \in ScopeArgLists, alias_var_set_ \in SUBSET ScopeVarNames :
       CreateComputeFunction(vargs, alias_var_set_)
  \/ SetArgAttrs
  \/ EnterComputeBody

(***************************************************************************)
(* The pass infrastructure (ir/transform.cc).  First part: the thread's    *)
(* stack of pass contexts and the instruments of each context.  A context  *)
(* is known by its number, 0 is the thread's default context; an           *)
(* instrument is known by its number too, and its callbacks are outside    *)
(* the program: each may throw.  An Array that is not defined behaves as   *)
(* the empty one in all of this code.                                      *)
(***************************************************************************)
\* the most instruments a context holds
MaxInstruments == 3

\* the most EnterWithScope calls that succeed in one run
MaxCalls == 4

\* the PassContext objects the thread works with
Contexts == {1, 2}

\* entry->default_context
DefaultContext == 0

InstrumentLists == {[k \in 1 .. n |-> k] : n \in 0 .. MaxInstruments}

\* a call of a callback of instrument pi
Call(f, pi) == [f |-> f, pi |-> pi]

NoPassInfo == [name |-> "", opt_level |-> 0, required |-> <<>>]

NoPass ==
  [pc |-> "idle", context_stack |-> <<>>,
   instruments |-> [c \in Contexts \cup {DefaultContext} |-> <<>>],
   hist |-> <<>>, calls |-> <<>>,
   last |-> [op |-> "none", ctx |-> 0, thrown |-> "none", k |-> 0],
   opt_level |-> 0, disabled_pass |-> {}, required_pass |-> {},
   passes |-> <<>>, i |-> 0, j |-> 0, mod |-> <<>>, ran |-> NoPassInfo,
   no |-> {}, vetoed |-> FALSE]

PassIdle == pass = NoPass

ExtIdle == ScopeIdle /\ PassIdle

\* the thread has made its contexts, each with a list of instruments
ContextStart ==
  \E l1 \in InstrumentLists, l2 \in InstrumentLists :
    pass = [NoPass EXCEPT !.pc = "ctx", !.instruments[1] = l1,
                          !.instruments[2] = l2]

\* PassContext::Current()
Current(p) ==
  IF p.context_stack # <<>> THEN p.context_stack[Len(p.context_stack)]
  ELSE DefaultContext

\* ~ExitContextOnError() while the exception of EnterPassContext unwinds:
\* ExitPassContext on the successes, last first; one that throws out of the
\* destructor ends the process
ExitContextOnError(successes, exit_fails) ==
  LET n == Len(successes)
      throwers == {x \in 1 .. n : successes[x] \in exit_fails}
      stop == IF throwers = {} THEN 1 ELSE MaxOf(throwers)
  IN [calls |-> [x \in 1 .. n - stop + 1 |->
                   Call("ExitPassContext", successes[n - x + 1])],
      terminate |-> throwers # {}]

\* PassContext::InstrumentEnterPassContext() of context c: EnterPassContext
\* of instrument fails_at throws (0: of none)
InstrumentEnterPassContext(p, c, fails_at, exit_fails) ==
  LET ins == p.instruments[c]
      k == IF fails_at <= Len(ins) THEN fails_at ELSE 0
      enters == [x \in 1 .. (IF k = 0 THEN Len(ins) ELSE k) |->
                   Call("EnterPassContext", ins[x])]
      undo == ExitContextOnError(SubSeq(ins, 1, k - 1), exit_fails)
  IN IF k = 0
     THEN [p EXCEPT !.calls = enters, !.last.thrown = "none", !.last.k = 0]
     ELSE IF undo.terminate
     THEN [p EXCEPT !.calls = enters \o undo.calls, !.pc = "terminated",
                    !.last.thrown = "terminate", !.last.k = k]
     ELSE [p EXCEPT !.calls = enters \o undo.calls, !.instruments[c] = <<>>,
                    !.last.thrown = "error", !.last.k = k]

\* PassContext::InstrumentExitPassContext() of context c: when an
\* ExitPassContext throws, ~ClearOnError() clears the list
InstrumentExitPassContext(p, c, exit_fails) ==
  LET ins == p.instruments[c]
      throwers == {x \in 1 .. Len(ins) : ins[x] \in exit_fails}
      stop == IF throwers = {} THEN Len(ins)
              ELSE CHOOSE x \in throwers : \A y \in throwers : x <= y
      exits == [x \in 1 .. stop |-> Call("ExitPassContext", ins[x])]
  IN IF throwers = {}
     THEN [p EXCEPT !.calls = exits, !.last.thrown = "none"]
     ELSE [p EXCEPT !.calls = exits, !.instruments[c] = <<>>,
                    !.last.thrown = "error"]

\* the history of the thread, kept apart from the stack: the entry of c is
\* the latest one
Entered(p, c) == [p EXCEPT !.hist = Append(@, [ctx |-> c, live |-> TRUE])]

\* the latest entry of c that has not been exited is exited
Exited(p, c) ==
  LET mine == {x \in 1 .. Len(p.hist) : p.hist[x].ctx = c /\ p.hist[x].live}
  IN IF mine = {} THEN p ELSE [p EXCEPT !.hist[MaxOf(mine)].live = FALSE]

\* a faulty exit: whatever is on top is popped
TopIsAny(p, c) == TRUE

\* ICHECK(entry->context_stack.top().same_as(*this))
TopIsSame(p, c) == p.context_stack[Len(p.context_stack)] = c

\* PassContext::EnterWithScope() on context c
EnterWithScope(c, fails_at, exit_fails) ==
  /\ pass.pc = "ctx"
  /\ Len(pass.hist) < MaxCalls
  /\ LET p0 == [pass EXCEPT !.last.op = "enter", !.last.ctx = c]
         p1 == InstrumentEnterPassContext(p0, c, fails_at, exit_fails)
     IN pass' = IF p1.last.thrown = "none"
                THEN Entered([p1 EXCEPT !.context_stack = Append(@, c)], c)
                ELSE p1
  /\ UNCHANGED notPass

\* PassContext::ExitWithScope() on context c
ExitWithScope(c, exit_fails) ==
  /\ pass.pc = "ctx"
  /\ LET p0 == [pass EXCEPT !.last.op = "exit", !.last.ctx = c, !.last.k = 0,
                            !.calls = <<>>]
     IN pass' =
          IF p0.context_stack = <<>> THEN [p0 EXCEPT !.last.thrown = "fatal"]
          ELSE IF ~TopIsSame(p0, c) THEN [p0 EXCEPT !.last.thrown = "fatal"]
          ELSE InstrumentExitPassContext(
                 Exited([p0 EXCEPT !.context_stack =
                                      SubSeq(@, 1, Len(@) - 1)], c),
                 c, exit_fails)
  /\ UNCHANGED notPass

ContextNext ==
  \E c \in Contexts, exit_fails \in SUBSET (1 .. MaxInstruments) :
    \/ \E fails_at \in 0 .. MaxInstruments :
         EnterWithScope(c, fails_at, exit_fails)
    \/ ExitWithScope(c, exit_fails)

(***************************************************************************)
(* The pass infrastructure, second part: a pass run under a context, and   *)
(* the passes of a Sequential run one call at a time.  The module is known *)
(* by the pass bodies applied to it, in order; a pass is known by its      *)
(* name, and GetPass finds it in the registry of the process.              *)
(***************************************************************************)
\* the highest optimization level of a context or a pass
MaxOptLevel == 2

\* the most passes a Sequential holds
MaxPasses == 2

PassNames == {"A", "B", "C"}

\* GetPass(pass_name): the passes registered under "transform."
GetPass(pass_name) ==
  CASE pass_name = "A" -> [name |-> "A", opt_level |-> 0, required |-> <<>>]
    [] pass_name = "B" -> [name |-> "B", opt_level |-> 1, required |-> <<"A">>]
    [] OTHER -> [name |-> "C", opt_level |-> MaxOptLevel,
                 required |-> <<"A", "B">>]

\* the pass lists of a Sequential
PassLists ==
  UNION {[1 .. n -> PassNames] : n \in 0 .. MaxPasses}

\* the context the passes run under has been made
PassStart ==
  \E ol \in 0 .. MaxOptLevel, dis \in SUBSET PassNames,
     req \in SUBSET PassNames, ins \in InstrumentLists :
    pass = [NoPass EXCEPT !.pc = "run", !.opt_level = ol,
                          !.disabled_pass = dis, !.required_pass = req,
                          !.instruments[1] = ins]

\* PassArrayContains(disabled_pass, name), PassArrayContains(required_pass, name)
PassArrayContains(pass_array, pass_name) == pass_name \in pass_array

\* PassContext::PassEnabled(info)
PassEnabled(p, info) ==
  IF PassArrayContains(p.disabled_pass, info.name) THEN FALSE
  ELSE IF PassArrayContains(p.required_pass, info.name) THEN TRUE
  ELSE p.opt_level >= info.opt_level

\* a faulty veto: the required list is not looked at
PassRequiredNever(p, pass_info) == FALSE

\* const bool pass_required = PassArrayContains(required_pass, pass_info->name)
PassRequired(p, pass_info) == PassArrayContains(p.required_pass, pass_info.name)

\* the callback f called on every instrument of the list, in order
OnEach(f, ins) == [x \in 1 .. Len(ins) |-> Call(f, ins[x])]

\* PassContext::InstrumentBeforePass(mod, pass_info): ShouldRun of the
\* instruments in no returns false
InstrumentBeforePass(p, pass_info, no) ==
  LET ins == p.instruments[1]
      pass_required == PassRequired(p, pass_info)
      should_run == pass_required \/ \A x \in 1 .. Len(ins) : ins[x] \notin no
  IN [calls |-> (IF pass_required THEN <<>> ELSE OnEach("ShouldRun", ins))
                  \o (IF should_run THEN OnEach("RunBeforePass", ins) ELSE <<>>),
      should_run |-> should_run]

\* PassContext::InstrumentAfterPass(ret, pass_info)
InstrumentAfterPass(p, pass_info) == OnEach("RunAfterPass", p.instruments[1])

\* Pass::operator()(mod, pass_ctx) of the pass pass_info: the body,
\* node->operator()(mod, pass_ctx), appends the pass to the module's record
PassCall(p, pass_info, no) ==
  LET before == InstrumentBeforePass(p, pass_info, no)
      ins == p.instruments[1]
      p0 == [p EXCEPT !.last.op = "pass", !.ran = pass_info,
                      !.no = {ins[x] : x \in {y \in 1 .. Len(ins) : ins[y] \in no}}]
  IN IF ~before.should_run
     THEN [p0 EXCEPT !.calls = before.calls, !.vetoed = TRUE]
     ELSE [p0 EXCEPT !.calls = before.calls \o <<Call("body", 0)>>
                                 \o InstrumentAfterPass(p, pass_info),
                     !.mod = Append(@, pass_info.name)]

\* one pass is run on a module under the context
RunPass(pass_name, no) ==
  /\ pass.pc = "run"
  /\ pass' = [PassCall(pass, GetPass(pass_name), no) EXCEPT !.pc = "ran"]
  /\ UNCHANGED notPass

\* SequentialNode::operator()(mod, pass_ctx) is entered
SeqStart(passes) ==
  /\ pass.pc = "run"
  /\ pass' = [pass EXCEPT !.pc = "seq", !.passes = passes, !.i = 1, !.j = 0,
                          !.last.op = "start"]
  /\ UNCHANGED notPass

\* the pass the loop is at
SeqInfo == GetPass(pass.passes[pass.i])

SeqAt ==
  /\ pass.pc = "seq"
  /\ pass.i <= Len(pass.passes)

\* if (!pass_ctx.PassEnabled(pass_info)) continue
SeqSkip ==
  /\ SeqAt
  /\ ~PassEnabled(pass, SeqInfo)
  /\ pass' = [pass EXCEPT !.i = @ + 1, !.last.op = "skip", !.ran = SeqInfo,
                          !.calls = <<>>]
  /\ UNCHANGED notPass

\* mod = GetPass(it)(std::move(mod), pass_ctx) for the next name of
\* pass_info->required
SeqDep(no) ==
  /\ SeqAt
  /\ PassEnabled(pass, SeqInfo)
  /\ pass.j < Len(SeqInfo.required)
  /\ pass' = [PassCall(pass, GetPass(SeqInfo.required[pass.j + 1]), no)
                EXCEPT !.j = @ + 1]
  /\ UNCHANGED notPass

\* mod = pass(std::move(mod), pass_ctx)
SeqPass(no) ==
  /\ SeqAt
  /\ PassEnabled(pass, SeqInfo)
  /\ pass.j = Len(SeqInfo.required)
  /\ pass' = [PassCall(pass, SeqInfo, no) EXCEPT !.i = @ + 1, !.j = 0]
  /\ UNCHANGED notPass

\* return mod
SeqEnd ==
  /\ pass.pc = "seq"
  /\ pass.i > Len(pass.passes)
  /\ pass' = [pass EXCEPT !.pc = "ran", !.last.op = "end", !.calls = <<>>]
  /\ UNCHANGED notPass

SequentialNext ==
  \/ \E pass_name \in PassNames, no \in SUBSET (1 .. MaxInstruments) :
       RunPass(pass_name, no)
  \/ \E passes \in PassLists : SeqStart(passes)
  \/ SeqSkip
  \/ \E no \in SUBSET (1 .. MaxInstruments) : SeqDep(no)
  \/ \E no \in SUBSET (1 .. MaxInstruments) : SeqPass(no)
  \/ SeqEnd

(***************************************************************************)
(* The lowering visitor.  cg is the CodeGenCPU object while it lowers one  *)
(* PrimFunc: its compile-time context, the module it builds, and the       *)
(* activations of the handlers whose body is still being visited.          *)
(* Statements are drawn while the visitor walks: each Visit action lowers  *)
(* the next statement of the body that is open, each End action closes     *)
(* the innermost open body and runs the rest of its handler.               *)
(***************************************************************************)
\* number of statements of the PrimFunc
MaxStmts == 3

\* names of the external packed functions the PrimFunc calls
Names == {"f", "g"}

\* the variables of the PrimFunc (its buffer parameter)
ProgVars == {"A"}

\* an emitted instruction: op, s (callee or condition), n (symbol), v (the
\* value it defines or uses), t and e (branch targets, or the callee function
\* and an argument); of a phi, t and e are the first incoming block and
\* value, u and w the second
Ins(op, s, n, v, t, e) ==
  [op |-> op, s |-> s, n |-> n, v |-> v, t |-> t, e |-> e, u |-> 0, w |-> 0]

\* ParallelEnv{}: no environment
NoParallelEnv ==
  [penv |-> 0, task_id |-> 0, num_task |-> 0, stride_pattern |-> FALSE,
   in_parallel_loop |-> FALSE, parallel_loop_count |-> 0]

\* the compile-time context a nested lowering scope may replace
Ctx(g) ==
  [function_ |-> g.function_, var_map_ |-> g.var_map_,
   analyzer_ |-> g.analyzer_, parallel_env_ |-> g.parallel_env_]

NoCtx ==
  [function_ |-> 0, var_map_ |-> {}, analyzer_ |-> 0,
   parallel_env_ |-> NoParallelEnv]

NoExit == [kind |-> "none", pre |-> NoCtx, post |-> NoCtx, cont |-> 0]

\* an entry of var_map_: the llvm::Value bound to a Var
VarValue(var, fn, def) == [var |-> var, fn |-> fn, def |-> def]

\* llvm::BasicBlock::Create(ctx, name, fn): the block is appended to the
\* block list of fn
NewBlock(g, fn, nm) ==
  [g EXCEPT !.blocks = Append(@, [fn |-> fn, name |-> nm, code |-> <<>>]),
            !.funcs[fn].last = Len(g.blocks) + 1]

LastBlock(g) == Len(g.blocks)

\* llvm::Function::Create(ftype, linkage, name, module_)
NewFunction(g, nm, linkage) ==
  [g EXCEPT !.funcs = Append(@, [name |-> nm, linkage |-> linkage, entry |-> 0,
                                 last |-> 0])]

LastFunction(g) == Len(g.funcs)

\* builder_->SetInsertPoint(b)
SetInsertPoint(g, b) == [g EXCEPT !.insert_block = b]

\* builder_->Create...: the instruction is appended at the insert point
Emit(g, ins) == [g EXCEPT !.blocks[g.insert_block].code = Append(@, ins)]

\* the llvm::Value the next instruction at the insert point defines
NextValue(g) == g.insert_block * 100 + Len(g.blocks[g.insert_block].code) + 1

\* builder_->CreateCall(callee, args)
CreateCall(g, callee, sym, fn) ==
  Emit(g, Ins("call", callee, sym, NextValue(g), fn, 0))

\* a faulty success check: the failure block returns the constant -1
CheckCallSuccessConstant(g, retcode) ==
  LET g1 == NewBlock(g, g.function_, "call_fail")
      fail_block == LastBlock(g1)
      g2 == NewBlock(g1, g.function_, "call_end")
      end_block == LastBlock(g2)
      g3 == Emit(g2, Ins("condbr", "eq0", "", retcode, end_block, fail_block))
      g4 == Emit(SetInsertPoint(g3, fail_block), Ins("ret", "const", "", 0 - 1, 0, 0))
  IN [SetInsertPoint(g4, end_block) EXCEPT
        !.checks = @ \cup {[id |-> retcode, fail |-> fail_block, end |-> end_block]}]

\* a faulty success check: the failure block goes on where success does
CheckCallSuccessFallThrough(g, retcode) ==
  LET g1 == NewBlock(g, g.function_, "call_fail")
      fail_block == LastBlock(g1)
      g2 == NewBlock(g1, g.function_, "call_end")
      end_block == LastBlock(g2)
      g3 == Emit(g2, Ins("condbr", "eq0", "", retcode, end_block, fail_block))
      g4 == Emit(SetInsertPoint(g3, fail_block), Ins("br", "", "", 0, end_block, 0))
  IN [SetInsertPoint(g4, end_block) EXCEPT
        !.checks = @ \cup {[id |-> retcode, fail |-> fail_block, end |-> end_block]}]

\* CheckCallSuccess(retcode): the insert point is the call_end block afterwards
CheckCallSuccess(g, retcode) ==
  LET g1 == NewBlock(g, g.function_, "call_fail")
      fail_block == LastBlock(g1)
      g2 == NewBlock(g1, g.function_, "call_end")
      end_block == LastBlock(g2)
      g3 == Emit(g2, Ins("condbr", "eq0", "", retcode, end_block, fail_block))
      g4 == Emit(SetInsertPoint(g3, fail_block), Ins("ret", "val", "", retcode, 0, 0))
  IN [SetInsertPoint(g4, end_block) EXCEPT
        !.checks = @ \cup {[id |-> retcode, fail |-> fail_block, end |-> end_block]}]

\* a faulty handle cache: a new cell on every resolution
HandleCellIsNewAlways(g, fname) == TRUE

\* it == func_handle_map_.end()
HandleCellIsNew(g, fname) == \A e \in g.func_handle_map_ : e.name # fname

\* the llvm::GlobalVariable that is the k-th global of the module being built
Hptr(g, k) == g.module_ * 10 + k

\* no null check: the slow path is taken whatever the cell holds
HandleAlwaysInit(handle, end_block, init_block) ==
  Ins("br", "", "", 0, init_block, 0)

\* CreateCondBr(handle_not_null, end_block, init_block)
HandleNotNullBr(handle, end_block, init_block) ==
  Ins("condbr", "ne0", "", handle, end_block, init_block)

\* GetPackedFuncHandle(fname): the phi it returns is the last instruction at
\* the insert point afterwards
GetPackedFuncHandle(g, fname) ==
  LET g0 == IF HandleCellIsNew(g, fname)
            THEN [g EXCEPT !.globals = Append(@, fname),
                           !.func_handle_map_ =
                              {e \in @ : e.name # fname} \cup
                                {[name |-> fname,
                                  hptr |-> Hptr(g, Len(g.globals) + 1)]}]
            ELSE g
      hptr == (CHOOSE e \in g0.func_handle_map_ : e.name = fname).hptr
      pre_block == g0.insert_block
      g1 == NewBlock(g0, g0.function_, "handle_init")
      init_block == LastBlock(g1)
      g2 == NewBlock(g1, g1.function_, "handle_init_end")
      end_block == LastBlock(g2)
      handle == NextValue(g2)
      g3 == Emit(g2, Ins("load_cell", "", fname, handle, hptr, 0))
      g4 == Emit(g3, HandleNotNullBr(handle, end_block, init_block))
      g5 == Emit(SetInsertPoint(g4, init_block), Ins("load_ctx", "", "", 0, 0, 0))
      retcode == NextValue(g5)
      g6 == CheckCallSuccess(CreateCall(g5, "TVMBackendGetFuncFromEnv", fname, 0),
                             retcode)
      loaded_handle == NextValue(g6)
      g7 == Emit(g6, Ins("load_out", "", fname, loaded_handle, 0, 0))
      g8 == Emit(g7, Ins("store_cell", "", fname, loaded_handle, hptr, 0))
      g9 == SetInsertPoint(Emit(g8, Ins("br", "", "", 0, end_block, 0)), end_block)
      phi == [Ins("phi", "", fname, NextValue(g9), pre_block, handle) EXCEPT
                !.u = g8.insert_block, !.w = loaded_handle]
  IN [Emit(g9, phi) EXCEPT
        !.resolved = Append(@, [name |-> fname, fn |-> g.function_])]

\* module_->getFunction(name), created with ExternalLinkage when absent
GetOrDeclare(g, nm) ==
  IF \E i \in 1 .. Len(g.funcs) : g.funcs[i].name = nm THEN g
  ELSE NewFunction(g, nm, "external")

\* the call of MakeCallPackedLowered and its check; g holds the callee: the
\* handle that was resolved last, or the declared function
CallPackedAndCheck(g, func_name, use_env_lookup) ==
  LET here == g.blocks[g.insert_block].code
      call == NextValue(g)
      g2 == IF use_env_lookup
            THEN Emit(g, Ins("call", "TVMFFIFunctionCall", func_name, call, 0,
                             here[Len(here)].v))
            ELSE CreateCall(g, "extern", func_name, 0)
  IN CheckCallSuccess(g2, call)

\* MakeCallPackedLowered(args, r_type, begin, end, use_env_lookup), r_type
\* void; the callee is lowered once
MakeCallPackedLowered(g, func_name, use_env_lookup) ==
  CHOOSE r \in {CallPackedAndCheck(g1, func_name, use_env_lookup) :
                  g1 \in {IF use_env_lookup THEN GetPackedFuncHandle(g, func_name)
                          ELSE GetOrDeclare(g, func_name)}} :
    TRUE

\* the loads of pc.ret_value and of pc.ret_type_index from the result slot
ResultLoads(g, func_name) ==
  Emit(Emit(g, Ins("load_ret", "", func_name, NextValue(g), 0, 0)),
       Ins("load_tidx", "", func_name, NextValue(g) + 1, 0, 0))

\* MakeCallPackedLowered with a result type that is not void: pc.ret_value
\* and pc.ret_type_index are loaded in pc.end_block
PackedCallWithResult(g, func_name, use_env_lookup) ==
  CHOOSE r \in {ResultLoads(g1, func_name) :
                  g1 \in {MakeCallPackedLowered(g, func_name, use_env_lookup)}} :
    TRUE

\* the expressions traced: a variable, or the result of a packed call
TracedExprs == {"var", "call"}

\* MakeValue(op->args[4]): CreateIntrinsic lowers a packed call in the traced
\* expression with CreateCallPacked
TracedValue(g, traced) ==
  IF traced = "var" THEN Emit(g, Ins("eval", "", "", NextValue(g), 0, 0))
  ELSE PackedCallWithResult(g, "g", TRUE)

\* phi_rvalue: addIncoming(pc.ret_value, update_block),
\* addIncoming(traced_value, pc.end_block)
TracePhi(id, ret_value, update_block, traced_value, end_block) ==
  [Ins("phi", "trace", "", id, update_block, ret_value) EXCEPT
     !.u = end_block, !.w = traced_value]

\* tir::UndefinedVars(body, {}): the variables of the PrimFunc bound here
UndefinedVars(g) == {x.var : x \in {y \in g.var_map_ : y.var \in ProgVars}}

\* the activation of a handler whose body is being visited: what it swapped
\* out, the block it continues in, and the context when it began
Activation(kind, saved, end_block, loop_block, open, pre) ==
  [kind |-> kind, saved |-> saved, end_block |-> end_block,
   loop_block |-> loop_block, open |-> open, pre |-> pre]

Push(g, a) == [g EXCEPT !.stack = Append(@, a)]

Pop(g) == [g EXCEPT !.stack = SubSeq(@, 1, Len(@) - 1)]

Top(g) == g.stack[Len(g.stack)]

\* LOG(FATAL) or a failed ICHECK: the compilation is aborted
Fatal(g) == [g EXCEPT !.pc = "fatal"]

\* CreateParallelLaunch(body, num_task, name) up to this->VisitStmt(body)
ParallelLaunchBegin(g, open) ==
  LET g1 == NewFunction(g, "__tvm_parallel_lambda", "private")
      f == LastFunction(g1)
      g2 == Emit(g1, Ins("pack", "", "", 0, f, 0))
      call == NextValue(g2)
      g3 == CheckCallSuccess(CreateCall(g2, "TVMBackendParallelLaunch", "", f), call)
      par_launch_end == g3.insert_block
      g4 == NewBlock(g3, f, "parallel_closure_entry")
      lambda_entry == LastBlock(g4)
      g5 == Emit(SetInsertPoint(g4, lambda_entry), Ins("unpack", "", "", 0, f, 0))
      new_vmap == {VarValue(x, f, "load") : x \in UndefinedVars(g)}
                    \cup {VarValue("task_id", f, "arg"), VarValue("num_task", f, "load")}
      par_env == [NoParallelEnv EXCEPT !.task_id = f, !.num_task = f, !.penv = f]
  IN Push([g5 EXCEPT !.funcs[f].entry = lambda_entry,
                     !.function_ = f, !.parallel_env_ = par_env,
                     !.analyzer_ = f, !.var_map_ = new_vmap],
          Activation("launch", Ctx(g), par_launch_end, 0, open, Ctx(g)))

\* the handler that completed in this step, for the record
Completed(g, kind, a) ==
  [g EXCEPT !.last_exit = [kind |-> kind, pre |-> a.pre, post |-> Ctx(g),
                           cont |-> a.end_block]]

\* a faulty launch: the environment of the closure is not swapped back
ParallelLaunchEndKeepEnv(g) ==
  LET a == Top(g)
      g1 == Emit(g, Ins("ret", "const", "", 0, 0, 0))
      par_env == g1.parallel_env_
      g2 == [g1 EXCEPT !.var_map_ = a.saved.var_map_,
                       !.analyzer_ = a.saved.analyzer_,
                       !.function_ = a.saved.function_]
  IN IF par_env.parallel_loop_count = 0 THEN Fatal(g2)
     ELSE Completed(SetInsertPoint(Pop(g2), a.end_block), "launch", a)

\* CreateParallelLaunch after this->VisitStmt(body)
ParallelLaunchEnd(g) ==
  LET a == Top(g)
      g1 == Emit(g, Ins("ret", "const", "", 0, 0, 0))
      par_env == g1.parallel_env_
      g2 == [g1 EXCEPT !.var_map_ = a.saved.var_map_,
                       !.analyzer_ = a.saved.analyzer_,
                       !.parallel_env_ = a.saved.parallel_env_,
                       !.function_ = a.saved.function_]
  IN IF par_env.parallel_loop_count = 0 THEN Fatal(g2)
     ELSE Completed(SetInsertPoint(Pop(g2), a.end_block), "launch", a)

\* CreateSerialFor(begin, end, stride, loop_var, body) up to the visit of body
SerialForBegin(g) ==
  LET g1 == NewBlock(g, g.function_, "for_begin")
      for_begin == LastBlock(g1)
      g2 == NewBlock(g1, g.function_, "for_body")
      for_body == LastBlock(g2)
      g3 == NewBlock(g2, g.function_, "for_end")
      for_end == LastBlock(g3)
      g4 == Emit(g3, Ins("br", "", "", 0, for_begin, 0))
      g5 == Emit(SetInsertPoint(g4, for_begin),
                 Ins("condbr", "loop", "", 0, for_body, for_end))
  IN Push(SetInsertPoint(g5, for_body),
          Activation("for", NoCtx, for_end, for_begin, TRUE, Ctx(g)))

\* the activations of the markers and loops that enclose the insert point
\* inside the closure of the innermost launch
InLaunch(g) ==
  {k \in 1 .. Len(g.stack) :
     \A j \in k .. Len(g.stack) : g.stack[j].kind # "launch"}

\* if (parallel_env_.stride_pattern): the partition of the parallel-for
\* about to be lowered
Partition(g) == IF g.parallel_env_.stride_pattern THEN "stride" ELSE "block"

\* the parallel-for about to be lowered: its environment, its partition,
\* and whether the body of a stride-pattern marker of its launch holds it
LoopOf(g) ==
  [penv |-> g.parallel_env_.penv, partition |-> Partition(g),
   in_marker |-> \E k \in InLaunch(g) : g.stack[k].kind = "stride"]

\* VisitStmt_ of a parallel ForNode, else branch ("already in parallel env"),
\* up to the visit of the loop body
ParallelForBegin(g) ==
  IF g.parallel_env_.in_parallel_loop THEN Fatal(g)
  ELSE SerialForBegin([g EXCEPT !.parallel_env_.in_parallel_loop = TRUE,
                                !.loops = Append(@, LoopOf(g))])

\* a faulty loop end: the loop is not counted
ParallelForEndUncounted(g) ==
  LET a == Top(g)
      g1 == Emit(g, Ins("br", "", "", 0, a.loop_block, 0))
      g2 == SetInsertPoint(Pop(g1), a.end_block)
  IN Completed([g2 EXCEPT !.parallel_env_.in_parallel_loop = FALSE], "for", a)

\* the rest of CreateSerialFor and of the else branch
ParallelForEnd(g) ==
  LET a == Top(g)
      g1 == Emit(g, Ins("br", "", "", 0, a.loop_block, 0))
      g2 == SetInsertPoint(Pop(g1), a.end_block)
  IN Completed([g2 EXCEPT !.parallel_env_.in_parallel_loop = FALSE,
                          !.parallel_env_.parallel_loop_count = @ + 1],
               "for", a)

\* a faulty check: the environment is not looked at
NoEnvCheck(g) == TRUE

\* ICHECK(parallel_env_.penv == nullptr)
NoEnvActive(g) == g.parallel_env_.penv = 0

\* CreateStaticInit(init_fname, body) up to this->VisitStmt(body)
StaticInitBegin(g, init_fname) ==
  LET g1 == NewFunction(g, "__tvm_static_init_lambda", "private")
      f == LastFunction(g1)
      g2 == GetOrDeclare([g1 EXCEPT !.globals = Append(@, "__tvm_static_handle")],
                         init_fname)
      g3 == Emit(g2, Ins("pack", "", "", 0, f, 0))
      call == NextValue(g3)
      g4 == CheckCallSuccess(CreateCall(g3, "static_init", init_fname, f), call)
      init_end == g4.insert_block
      g5 == NewBlock(g4, f, "entry")
      lambda_entry == LastBlock(g5)
      g6 == Emit(SetInsertPoint(g5, lambda_entry), Ins("unpack", "", "", 0, f, 0))
      new_vmap == {VarValue(x, f, "load") : x \in UndefinedVars(g)}
      g7 == [g6 EXCEPT !.funcs[f].entry = lambda_entry]
  IN IF ~NoEnvActive(g7) THEN Fatal(g7)
     ELSE Push([g7 EXCEPT !.function_ = f, !.analyzer_ = f, !.var_map_ = new_vmap],
               Activation("static", [Ctx(g) EXCEPT !.parallel_env_ = NoParallelEnv],
                          init_end, 0, TRUE, Ctx(g)))

\* CreateStaticInit after this->VisitStmt(body)
StaticInitEnd(g) ==
  LET a == Top(g)
      g1 == Emit(g, Ins("ret", "const", "", 0, 0, 0))
      g2 == [g1 EXCEPT !.var_map_ = a.saved.var_map_,
                       !.analyzer_ = a.saved.analyzer_,
                       !.function_ = a.saved.function_]
  IN Completed(SetInsertPoint(Pop(g2), a.end_block), "static", a)

\* CreateComputeScope(op) up to this->VisitStmt(op->body); ComputeScopeStates
\* holds function_, analyzer_, var_map_ (and di_subprogram_)
ComputeScopeBegin(g, value) ==
  LET vargs == UndefinedVars(g)
      g1 == NewFunction(g, value, "internal")
      fcompute == LastFunction(g1)
      call == NextValue(g1)
      g2 == CheckCallSuccess(CreateCall(g1, "internal", value, fcompute), call)
      compute_call_end == g2.insert_block
      g3 == NewBlock(g2, fcompute, "entry")
      compute_entry == LastBlock(g3)
  IN Push([SetInsertPoint(g3, compute_entry) EXCEPT
             !.funcs[fcompute].entry = compute_entry,
             !.function_ = fcompute, !.analyzer_ = fcompute,
             !.var_map_ = {VarValue(x, fcompute, "arg") : x \in vargs}],
          Activation("compute", [Ctx(g) EXCEPT !.parallel_env_ = NoParallelEnv],
                     compute_call_end, 0, TRUE, Ctx(g)))

\* CreateComputeScope after this->VisitStmt(op->body), ExitWithScope included
ComputeScopeEnd(g) ==
  LET a == Top(g)
      g1 == Emit(g, Ins("ret", "const", "", 0, 0, 0))
      g2 == SetInsertPoint(Pop(g1), a.end_block)
  IN Completed([g2 EXCEPT !.function_ = a.saved.function_,
                          !.analyzer_ = a.saved.analyzer_,
                          !.var_map_ = a.saved.var_map_],
               "compute", a)

\* AttrStmt "pragma_parallel_stride_pattern" up to this->VisitStmt(op->body)
StridePatternBegin(g) ==
  IF g.parallel_env_.penv = 0 THEN Fatal(g)
  ELSE Push([g EXCEPT !.parallel_env_.stride_pattern = TRUE],
            Activation("stride", NoCtx, 0, 0, TRUE, Ctx(g)))

\* a faulty barrier marker: it may lie inside a parallel loop
BarrierBeginInLoop(g) ==
  IF g.parallel_env_.penv = 0 THEN Fatal(g)
  ELSE Push(g, Activation("barrier", NoCtx, 0, 0, TRUE, Ctx(g)))

\* AttrStmt "pragma_parallel_barrier_when_finish" up to this->VisitStmt(op->body)
BarrierBegin(g) ==
  IF g.parallel_env_.penv = 0 THEN Fatal(g)
  ELSE IF g.parallel_env_.in_parallel_loop THEN Fatal(g)
  ELSE Push(g, Activation("barrier", NoCtx, 0, 0, TRUE, Ctx(g)))

\* MakeValue(parallel_env_.task_id): what var_map_ binds to the task-id
\* variable of the active environment
TaskIdValues(g) ==
  {x \in g.var_map_ : x.var = "task_id" /\ x.fn = g.parallel_env_.task_id}

\* the rest of the barrier branch: the call of the barrier primitive with
\* the task id (u) and penv (w); a variable var_map_ does not bind is fatal
BarrierEnd(g) ==
  LET a == Top(g)
      g1 == Pop(g)
      call == [Ins("call", "TVMBackendParallelBarrier", "", NextValue(g1), 0, 0)
                 EXCEPT !.u = (CHOOSE x \in TaskIdValues(g1) : TRUE).fn,
                        !.w = g1.parallel_env_.penv]
  IN IF TaskIdValues(g1) = {} THEN Fatal(g1)
     ELSE Completed(Emit(g1, call), "barrier", a)

\* CreateCallTracePacked(op) up to MakeValue(op->args[4]): pc.ret_value and
\* pc.ret_type_index are the first two values of pc.end_block
TraceBegin(g, fname) ==
  LET g1 == PackedCallWithResult(g, fname, TRUE)
  IN Push(g1, Activation("trace", NoCtx, g1.insert_block, 0, FALSE, Ctx(g)))

\* the traced expression has been lowered
TraceValueMade(g) == [g EXCEPT !.stack[Len(g.stack)].kind = "traced"]

\* the value MakeValue returned: the variable, or pc.ret_value of the call
TracedValueId(g) ==
  LET here == g.blocks[g.insert_block].code
  IN IF here[Len(here)].op = "eval" THEN here[Len(here)].v
     ELSE here[Len(here) - 1].v

\* CreateCallTracePacked(op) after MakeValue(op->args[4])
TraceEnd(g) ==
  LET a == Top(g)
      pc == [ret_value |-> a.end_block * 100 + 1,
             ret_type_index |-> a.end_block * 100 + 2,
             end_block |-> a.end_block]
      traced_value == TracedValueId(g)
      g1 == NewBlock(Pop(g), g.function_, "update_block")
      update_block == LastBlock(g1)
      g2 == NewBlock(g1, g.function_, "continue_block")
      continue_block == LastBlock(g2)
      g3 == Emit(g2, Ins("condbr", "ne0", "", pc.ret_type_index, update_block,
                         continue_block))
      g4 == Emit(SetInsertPoint(g3, update_block),
                 Ins("br", "", "", 0, continue_block, 0))
      g5 == SetInsertPoint(g4, continue_block)
  IN Completed(Emit(g5, TracePhi(continue_block * 100 + 1, pc.ret_value,
                                 update_block, traced_value, pc.end_block)),
               "trace", a)

\* the outcomes of &*next_block when next_block is the end of the block list
\* of the function: the build aborts, or the block is appended
EndDerefs == {"abort", "append"}

\* the blocks of function fn and the number of instructions each holds
CodeSizes(g, fn) ==
  [b \in {x \in 1 .. Len(g.blocks) : g.blocks[x].fn = fn} |->
     Len(g.blocks[b].code)]

\* BasicBlock::Create(ctx, "cont", function_, &*next_block): the block is
\* put into the list before next_block
NewBlockBefore(g, fn, nm, at_end) ==
  [g EXCEPT !.blocks = Append(@, [fn |-> fn, name |-> nm, code |-> <<>>]),
            !.funcs[fn].last = IF at_end THEN Len(g.blocks) + 1 ELSE @]

\* CreateIntrinsic, tvm_throw_last_error: for the record, throws keeps where
\* the return is, the new block, and what the function held
ThrowLastError(g, deref) ==
  LET g1 == Emit(g, Ins("ret", "const", "", -1, 0, 0))
      at_end == g.funcs[g.function_].last = g.insert_block
      th == [fn |-> g.function_,
             at |-> <<g.insert_block, Len(g1.blocks[g.insert_block].code)>>,
             cont |-> 0, sizes |-> CodeSizes(g1, g.function_)]
      g2 == NewBlockBefore(g1, g.function_, "cont", at_end)
      new_bb == LastBlock(g2)
  IN IF at_end /\ deref = "abort"
     THEN Fatal([g1 EXCEPT !.throws = @ \cup {th}])
     ELSE [SetInsertPoint(g2, new_bb) EXCEPT
             !.throws = @ \cup {[th EXCEPT !.cont = new_bb]}]

\* the conditions asserted, by the expression's identity
Conds == {1, 2}

\* "Assert fail: " << op->condition, then ", " << message when the message is
\* a string immediate: the text names the condition
AssertMsg(c, has_message) == c * 2 + (IF has_message THEN 1 ELSE 0)

\* the condition a message text names
CondOfMsg(msg) == msg \div 2

\* a faulty fail block: the error is raised and the function goes on to
\* return 0
AssertFailBlockRetZero(g, msg) ==
  Emit(Emit(g, Ins("call", "TVMFFIErrorSetRaisedFromCStr", "RuntimeError",
                   NextValue(g), 0, msg)),
       Ins("ret", "const", "", 0, 0, 0))

\* the fail block: CreateCall(err_callee, {"RuntimeError", msg}) and
\* CreateRet(ConstInt32(-1))
AssertFailBlock(g, msg) ==
  Emit(Emit(g, Ins("call", "TVMFFIErrorSetRaisedFromCStr", "RuntimeError",
                   NextValue(g), 0, msg)),
       Ins("ret", "const", "", -1, 0, 0))

\* VisitStmt_(const AssertStmtNode*) up to CodeGenLLVM::VisitStmt_(op)
AssertStmt(g, c, has_message) ==
  LET cond == NextValue(g)
      g1 == Emit(g, Ins("eval", "", "", cond, c, 0))
      msg == AssertMsg(c, has_message)
      g2 == NewBlock(g1, g1.function_, "assert_fail")
      fail_block == LastBlock(g2)
      g3 == NewBlock(g2, g2.function_, "assert_end")
      end_block == LastBlock(g3)
      g4 == Emit(g3, Ins("condbr", "ne0", "", cond, end_block, fail_block))
      g5 == AssertFailBlock(SetInsertPoint(g4, fail_block), msg)
  IN Push(SetInsertPoint(g5, end_block),
          Activation("assert", NoCtx, end_block, 0, TRUE, Ctx(g)))

\* CodeGenLLVM::VisitStmt_(op) has returned
AssertEnd(g) == Completed(Pop(g), "assert", Top(g))

(***************************************************************************)
(* The generator's state and the visitor's steps.                          *)
(***************************************************************************)
\* Init() and the start of AddFunction: the PrimFunc's function, its entry
\* block, its parameter bound
CgBody ==
  [pc |-> "body", module_ |-> 1, function_ |-> 1,
   var_map_ |-> {VarValue(x, 1, "arg") : x \in ProgVars},
   analyzer_ |-> 1, parallel_env_ |-> NoParallelEnv, insert_block |-> 1,
   func_handle_map_ |-> {}, globals |-> <<>>,
   funcs |-> <<[name |-> "main", linkage |-> "external", entry |-> 1,
                last |-> 1]>>,
   blocks |-> <<[fn |-> 1, name |-> "entry", code |-> <<>>]>>,
   stack |-> <<>>, nstmts |-> 0, checks |-> {}, resolved |-> <<>>,
   last_exit |-> NoExit, retired |-> {}, throws |-> {}, loops |-> <<>>]

GenStart == cg = CgBody

GenIdle == cg = [CgBody EXCEPT !.pc = "idle"]

\* the visitor stands where the next statement of an open body goes
CanVisit ==
  /\ cg.pc = "body"
  /\ cg.nstmts < MaxStmts
  /\ cg.stack # <<>> => Top(cg).open

\* one more statement of the PrimFunc was visited
Visited(g) == [g EXCEPT !.nstmts = @ + 1, !.last_exit = NoExit]

\* Evaluate(tvm_struct_set(...)): the store of CreateIntrinsic
VisitStructSet ==
  /\ CanVisit
  /\ cg' = Visited(Emit(cg, Ins("store", "", "", 0, 0, 0)))
  /\ UNCHANGED notGen

\* Evaluate(tvm_call_packed_lowered(fname, ...)) and tvm_call_cpacked_lowered:
\* CreateCallPacked
VisitCallPacked(fname, use_string_lookup) ==
  /\ CanVisit
  /\ cg' = Visited(MakeCallPackedLowered(cg, fname, use_string_lookup))
  /\ UNCHANGED notGen

\* number of traced calls in the PrimFunc
MaxTraces == 1

\* the joins of the traced calls lowered so far
TraceJoins(g) ==
  {b \in 1 .. Len(g.blocks) : g.blocks[b].name = "continue_block"}

\* Evaluate(tvm_call_trace_packed_lowered(fname, ..., traced)), up to the
\* traced expression
VisitCallTracePacked(fname) ==
  /\ CanVisit
  /\ Cardinality(TraceJoins(cg)) < MaxTraces
  /\ cg' = Visited(TraceBegin(cg, fname))
  /\ UNCHANGED notGen

\* VisitStmt_ of a ForNode of kind kParallel, min 0
VisitFor ==
  /\ CanVisit
  /\ cg' = Visited(IF cg.parallel_env_.penv = 0
                   THEN ParallelForBegin(ParallelLaunchBegin(cg, FALSE))
                   ELSE ParallelForBegin(cg))
  /\ UNCHANGED notGen

\* AttrStmt "pragma_parallel_launch_point"
VisitLaunchPoint ==
  /\ CanVisit
  /\ cg' = Visited(ParallelLaunchBegin(cg, TRUE))
  /\ UNCHANGED notGen

\* AttrStmt "pragma_parallel_stride_pattern"
VisitStridePattern ==
  /\ CanVisit
  /\ cg' = Visited(StridePatternBegin(cg))
  /\ UNCHANGED notGen

\* AttrStmt compute_scope
VisitComputeScope ==
  /\ CanVisit
  /\ cg' = Visited(ComputeScopeBegin(cg, "compute_"))
  /\ UNCHANGED notGen

\* AttrStmt coproc_uop_scope
VisitStaticInit ==
  /\ CanVisit
  /\ cg' = Visited(StaticInitBegin(cg, "TVMBackendRunOnce"))
  /\ UNCHANGED notGen

\* AttrStmt "pragma_parallel_barrier_when_finish"
VisitBarrier ==
  /\ CanVisit
  /\ cg' = Visited(BarrierBegin(cg))
  /\ UNCHANGED notGen

VisitAssert(c, has_message) ==
  /\ CanVisit
  /\ cg' = Visited(AssertStmt(cg, c, has_message))
  /\ UNCHANGED notGen

\* Evaluate(tvm_throw_last_error())
VisitThrow(deref) ==
  /\ CanVisit
  /\ cg' = Visited(ThrowLastError(cg, deref))
  /\ UNCHANGED notGen

\* the body of the innermost open handler has been visited
AtEndOf(kind) ==
  /\ cg.pc = "body"
  /\ cg.stack # <<>>
  /\ Top(cg).kind = kind

EndFor ==
  /\ AtEndOf("for")
  /\ cg' = ParallelForEnd(cg)
  /\ UNCHANGED notGen

EndLaunch ==
  /\ AtEndOf("launch")
  /\ cg' = ParallelLaunchEnd(cg)
  /\ UNCHANGED notGen

EndStridePattern ==
  /\ AtEndOf("stride")
  /\ cg' = Completed(Pop(cg), "stride", Top(cg))
  /\ UNCHANGED notGen

EndComputeScope ==
  /\ AtEndOf("compute")
  /\ cg' = ComputeScopeEnd(cg)
  /\ UNCHANGED notGen

EndStaticInit ==
  /\ AtEndOf("static")
  /\ cg' = StaticInitEnd(cg)
  /\ UNCHANGED notGen

EndBarrier ==
  /\ AtEndOf("barrier")
  /\ cg' = BarrierEnd(cg)
  /\ UNCHANGED notGen

\* llvm::Value* traced_value = MakeValue(op->args[4])
MakeTracedValue(traced) ==
  /\ AtEndOf("trace")
  /\ cg' = TraceValueMade(TracedValue(cg, traced))
  /\ UNCHANGED notGen

EndTrace ==
  /\ AtEndOf("traced")
  /\ cg' = TraceEnd(cg)
  /\ UNCHANGED notGen

EndAssert ==
  /\ AtEndOf("assert")
  /\ cg' = AssertEnd(cg)
  /\ UNCHANGED notGen

\* the end of AddFunction: the PrimFunc returns status 0
EndFunction ==
  /\ cg.pc = "body"
  /\ cg.stack = <<>>
  /\ cg' = [Emit(cg, Ins("ret", "const", "", 0, 0, 0)) EXCEPT
              !.pc = "done", !.last_exit = NoExit]
  /\ UNCHANGED notGen

\* a faulty Init: the handle cache of the last module is kept
InitKeepHandleMap(g) ==
  [CgBody EXCEPT !.module_ = g.module_ + 1, !.nstmts = g.nstmts,
                 !.retired = g.retired \cup
                               {Hptr(g, k) : k \in 1 .. Len(g.globals)},
                 !.func_handle_map_ = g.func_handle_map_]

\* CodeGenCPU::Init for the next module, and the start of AddFunction in it:
\* CodeGenLLVM::Init makes a new module, func_handle_map_.clear()
\* (retired: the globals of the modules built before)
InitNextModule(g) ==
  [CgBody EXCEPT !.module_ = g.module_ + 1, !.nstmts = g.nstmts,
                 !.retired = g.retired \cup
                               {Hptr(g, k) : k \in 1 .. Len(g.globals)}]

\* the generator is initialised again, for another module
InitModule ==
  /\ cg.pc = "done"
  /\ cg.module_ < MaxModules
  /\ cg' = InitNextModule(cg)
  /\ UNCHANGED notGen

\* the statements, markers and scopes that shape the compile-time context
LowerNext ==
  \/ VisitStructSet
  \/ \E fname \in Names : VisitCallPacked(fname, TRUE)
  \/ VisitFor
  \/ VisitLaunchPoint
  \/ VisitStridePattern
  \/ VisitComputeScope
  \/ VisitStaticInit
  \/ EndFor
  \/ EndLaunch
  \/ EndStridePattern
  \/ EndComputeScope
  \/ EndStaticInit
  \/ EndFunction

(***************************************************************************)
(* Execution of the emitted code: the call stack of the generated          *)
(* functions, one instruction per step.  The runtime ABI functions are     *)
(* outside the module: each returns any status.                            *)
(***************************************************************************)
\* the statuses a runtime ABI call returns
Statuses == {0, 1, 2}

NoFail == [id |-> 0, status |-> 0]

\* a generated function was entered at its entry block
Frame(fn) ==
  [fn |-> fn, blk |-> cg.funcs[fn].entry, prev |-> 0, ip |-> 1,
   regs |-> [x \in {} |-> 0], failed |-> NoFail, passed |-> 0]

\* the value id now holds st
SetReg(regs, id, st) ==
  [x \in DOMAIN regs \cup {id} |-> IF x = id THEN st ELSE regs[x]]

NoReturn == [fn |-> 0, value |-> 0, failed |-> NoFail]

\* the globals a module may hold
Hptrs == {m * 10 + k : m \in 1 .. MaxModules, k \in 1 .. MaxStmts}

RunIdle ==
  /\ run_pc = "idle"
  /\ frames = <<>>
  /\ cells = [h \in Hptrs |-> 0]
  /\ last_ret = NoReturn

Cur == frames[Len(frames)]

\* the instruction the running function executes next
HasIns(fr) == fr.ip <= Len(cg.blocks[fr.blk].code)

InsOf(fr) == cg.blocks[fr.blk].code[fr.ip]

Running ==
  /\ run_pc = "run"
  /\ frames # <<>>
  /\ HasIns(Cur)

SetCur(fr) == [frames EXCEPT ![Len(frames)] = fr]

\* the values passed to CheckCallSuccess
Checked == {c.id : c \in cg.checks}

\* the call instruction at ip has returned status st into fr
Returned(fr, st) ==
  LET id == InsOf(fr).v
  IN [fr EXCEPT !.ip = @ + 1, !.regs = SetReg(@, id, st), !.passed = 0,
                !.failed = IF st # 0 /\ id \in Checked
                           THEN [id |-> id, status |-> st] ELSE @]

\* the module is loaded and the PrimFunc is called
RunStart ==
  /\ cg.pc = "done"
  /\ run_pc = "idle"
  /\ run_pc' = "run"
  /\ frames' = <<Frame(1)>>
  /\ UNCHANGED <<cells, last_ret>>
  /\ UNCHANGED notRun

\* the PrimFunc is called again in the same process: the globals of the
\* module keep what the calls before stored
RunAgain ==
  /\ cg.pc = "done"
  /\ run_pc = "end"
  /\ run_pc' = "run"
  /\ frames' = <<Frame(1)>>
  /\ UNCHANGED <<cells, last_ret>>
  /\ UNCHANGED notRun

\* call of a function outside the module: the runtime API, an external
\* packed function, the launch or static-init entry without its callback
ExecCall(st) ==
  /\ Running
  /\ InsOf(Cur).op = "call"
  /\ InsOf(Cur).s # "internal"
  /\ frames' = SetCur(Returned(Cur, st))
  /\ UNCHANGED <<run_pc, cells, last_ret>>
  /\ UNCHANGED notRun

\* call of a function of the module: the outlined compute function, or the
\* closure the launch or the static-init entry runs
ExecEnter ==
  /\ Running
  /\ InsOf(Cur).op = "call"
  /\ InsOf(Cur).t # 0
  /\ frames' = Append(frames, Frame(InsOf(Cur).t))
  /\ UNCHANGED <<run_pc, cells, last_ret>>
  /\ UNCHANGED notRun

\* the operand of a ret
RetValue(fr) ==
  IF InsOf(fr).s = "const" THEN InsOf(fr).v ELSE fr.regs[InsOf(fr).v]

\* ret: the frame is left and its caller's call returns the value
ExecRet ==
  /\ Running
  /\ InsOf(Cur).op = "ret"
  /\ last_ret' = [fn |-> Cur.fn, value |-> RetValue(Cur), failed |-> Cur.failed]
  /\ IF Len(frames) = 1
     THEN /\ frames' = <<>>
          /\ run_pc' = "end"
     ELSE /\ frames' = [SubSeq(frames, 1, Len(frames) - 1) EXCEPT
                          ![Len(frames) - 1] =
                             Returned(frames[Len(frames) - 1], RetValue(Cur))]
          /\ UNCHANGED run_pc
  /\ UNCHANGED cells
  /\ UNCHANGED notRun

\* br and condbr; the condition of a loop is either
ExecBr(taken) ==
  /\ Running
  /\ InsOf(Cur).op \in {"br", "condbr"}
  /\ LET i == InsOf(Cur)
         yes == CASE i.op = "br" -> TRUE
                  [] i.s = "eq0" -> Cur.regs[i.v] = 0
                  [] i.s = "ne0" -> Cur.regs[i.v] # 0
                  [] OTHER -> taken
     IN frames' = SetCur([Cur EXCEPT
                            !.blk = IF yes THEN i.t ELSE i.e, !.ip = 1,
                            !.prev = Cur.blk,
                            !.passed = IF i.op = "condbr" /\ i.s = "eq0" /\ yes
                                       THEN i.v ELSE 0])
  /\ UNCHANGED <<run_pc, cells, last_ret>>
  /\ UNCHANGED notRun

\* the handles the environment lookup writes to its out parameter (0: null)
Handles == {0, 1, 2}

\* a value as an i1
AsBool(x) == IF x = 0 THEN 0 ELSE 1

\* the instructions that neither call nor branch; out is what the run
\* supplies: the handle the lookup wrote, the value an expression has, what
\* a call left in its result slot, or whatever a phi yields that has no
\* entry for the block the run came from
ExecPlain(out) ==
  /\ Running
  /\ InsOf(Cur).op \in {"store", "pack", "unpack", "load_ctx", "load_cell",
                        "load_out", "store_cell", "phi", "eval", "load_ret",
                        "load_tidx"}
  /\ LET i == InsOf(Cur)
         r == Cur.regs
     IN /\ frames' = SetCur([Cur EXCEPT
                               !.ip = @ + 1, !.passed = 0,
                               !.regs =
                                  CASE i.op = "load_cell" -> SetReg(r, i.v, cells[i.t])
                                    [] i.op \in {"load_out", "load_ret", "load_tidx"} ->
                                         SetReg(r, i.v, out)
                                    [] i.op = "eval" -> SetReg(r, i.v, AsBool(out))
                                    [] i.op = "phi" ->
                                         SetReg(r, i.v,
                                                IF Cur.prev = i.t THEN r[i.e]
                                                ELSE IF Cur.prev = i.u THEN r[i.w]
                                                ELSE out)
                                    [] OTHER -> r])
        /\ cells' = IF i.op = "store_cell"
                     THEN [cells EXCEPT ![i.t] = r[i.v]] ELSE cells
  /\ UNCHANGED <<run_pc, last_ret>>
  /\ UNCHANGED notRun

RunNext ==
  \/ RunStart
  \/ \E st \in Statuses : ExecCall(st)
  \/ ExecEnter
  \/ ExecRet
  \/ \E taken \in BOOLEAN : ExecBr(taken)
  \/ \E out \in Handles : ExecPlain(out)

\* the statements that call through the runtime ABI, and the code they emit run
CallNext ==
  \/ VisitStructSet
  \/ VisitCallPacked("f", TRUE)
  \/ VisitCallPacked("f", FALSE)
  \/ VisitFor
  \/ VisitComputeScope
  \/ VisitStaticInit
  \/ EndFor
  \/ EndLaunch
  \/ EndComputeScope
  \/ EndStaticInit
  \/ EndFunction
  \/ RunNext

\* assertions in functions and closures, and the code they emit run
AssertNext ==
  \/ VisitStructSet
  \/ \E c \in Conds, has_message \in BOOLEAN : VisitAssert(c, has_message)
  \/ VisitFor
  \/ EndAssert
  \/ EndFor
  \/ EndLaunch
  \/ EndFunction
  \/ RunNext

\* traced calls in the PrimFunc, and the code they emit run: a call returns
\* 0 or 1, and so does whatever it leaves in memory
TraceNext ==
  \/ VisitStructSet
  \/ VisitCallTracePacked("f")
  \/ \E traced \in TracedExprs : MakeTracedValue(traced)
  \/ EndTrace
  \/ EndFunction
  \/ RunStart
  \/ \E st \in {0, 1} : ExecCall(st)
  \/ ExecRet
  \/ \E taken \in BOOLEAN : ExecBr(taken)
  \/ \E out \in {0, 1} : ExecPlain(out)

\* throws in functions, closures and loops, and the code they emit run
ThrowNext ==
  \/ VisitStructSet
  \/ \E deref \in EndDerefs : VisitThrow(deref)
  \/ VisitFor
  \/ EndFor
  \/ EndLaunch
  \/ EndFunction
  \/ RunNext

\* packed calls by name in functions and compute scopes, and the PrimFunc
\* called again and again
RetryNext ==
  \/ VisitStructSet
  \/ \E fname \in Names : VisitCallPacked(fname, TRUE)
  \/ VisitComputeScope
  \/ EndComputeScope
  \/ EndFunction
  \/ RunNext
  \/ RunAgain

\* packed calls by name, in functions and compute scopes of successive modules
ModuleNext ==
  \/ \E fname \in Names : VisitCallPacked(fname, TRUE)
  \/ VisitStructSet
  \/ VisitComputeScope
  \/ EndComputeScope
  \/ EndFunction
  \/ InitModule

\* launches, their loops and barriers, and the code they emit run
BarrierNext ==
  \/ VisitStructSet
  \/ VisitFor
  \/ VisitLaunchPoint
  \/ VisitBarrier
  \/ EndFor
  \/ EndLaunch
  \/ EndBarrier
  \/ EndFunction
  \/ RunNext

(***************************************************************************)
(* C2: block partition completeness.  For extent > 0 and num_task > 0 the  *)
(* ranges [begin, end) the tasks 0..num_task-1 run are sorted by task id,  *)
(* contiguous, pairwise disjoint, and cover [0, extent) exactly once.      *)
(***************************************************************************)
C2_BlockPartitionComplete ==
  (~rt_stride /\ rt_extent > 0 /\ AllBegun) =>
    /\ task[0].begin = 0
    /\ task[rt_num_task - 1].end = rt_extent
    /\ \A t \in Tasks : task[t].begin <= task[t].end
    /\ \A t \in Tasks : t + 1 < rt_num_task => task[t + 1].begin = task[t].end

(***************************************************************************)
(* C3: stride partition correctness.  Under the stride pattern the loop of *)
(* task t visits exactly {t, t+num_task, t+2*num_task, ...} within         *)
(* [0, extent), at every point of the loop a subset of it and at the end   *)
(* all of it.                                                              *)
(***************************************************************************)
C3_StrideVisitsResidue ==
  rt_stride =>
    \A t \in Tasks :
      /\ task[t].visited \subseteq Residue(t)
      /\ task[t].pc = "done" => task[t].visited = Residue(t)

(***************************************************************************)
(* The descriptor and the tagged value as records of named fields          *)
(* (DLTensor, DLDevice, DLDataType, TVMFFIAny), in declaration order.      *)
(***************************************************************************)
FieldNames(tyname) ==
  CASE tyname = "DLTensor" ->
         <<"data", "device", "ndim", "dtype", "shape", "strides", "byte_offset">>
    [] tyname = "DLDevice" -> <<"device_type", "device_id">>
    [] tyname = "DLDataType" -> <<"code", "bits", "lanes">>
    [] tyname = "TVMFFIAny" -> <<"type_index", "padding", "payload">>

\* the field a tag names
TagField(kind) ==
  CASE kind = "kArrAddr" -> <<>>
    [] kind = "kArrData" -> <<"data">>
    [] kind = "kArrShape" -> <<"shape">>
    [] kind = "kArrStrides" -> <<"strides">>
    [] kind = "kArrNDim" -> <<"ndim">>
    [] kind = "kArrTypeCode" -> <<"dtype", "code">>
    [] kind = "kArrTypeBits" -> <<"dtype", "bits">>
    [] kind = "kArrTypeLanes" -> <<"dtype", "lanes">>
    [] kind = "kArrByteOffset" -> <<"byte_offset">>
    [] kind = "kArrDeviceId" -> <<"device", "device_id">>
    [] kind = "kArrDeviceType" -> <<"device", "device_type">>
    [] kind = "kTVMFFIAnyTypeIndex" -> <<"type_index">>
    [] kind = "kTVMFFIAnyUnionValue" -> <<"payload">>

NameIndex(tyname, n) ==
  CHOOSE i \in 1 .. Len(FieldNames(tyname)) : FieldNames(tyname)[i] = n

\* byte offset of the named field inside a value of type ty
RECURSIVE NamedOffset(_, _)
NamedOffset(ty, names) ==
  IF names = <<>> THEN 0
  ELSE LET i == NameIndex(ty.name, names[1])
       IN ty.offsets[i] + NamedOffset(ty.fields[i], Tail(names))

ElemType(kind) == IF kind \in ArrKinds THEN T_tvm_array ELSE T_tvm_ffi_any

\* the address of the field tag names in element index of the array at buf
FieldAddress(buf, index, kind) ==
  [region |-> buf.region,
   off |-> buf.off + index * ElemType(kind).size
           + NamedOffset(ElemType(kind), TagField(kind))]

(***************************************************************************)
(* C10: struct field address stability.  Whatever numeric type is asked    *)
(* for, the pointer CreateStructRefPtr returns for (base, index, tag) is   *)
(* the address of the field of that name in element index of the array at  *)
(* base: a function of (base, index, tag) only.                            *)
(***************************************************************************)
C10_FieldAddressStable ==
  last_op.op \in {"get", "set"} =>
    last_op.ref.addr = FieldAddress(last_op.base, last_op.index, last_op.kind)

\* a field behind other fields is addressed in the second element, on a
\* 32-bit target, where the offsets differ from the 64-bit ones
C10_Witness ==
  /\ last_op.op = "get"
  /\ last_op.kind = "kArrStrides"
  /\ last_op.index = 1
  /\ ptr_bytes = 4
  /\ last_op.ref.addr.off = 64

(***************************************************************************)
(* C9: tagged-value payload zero-fill.  After a struct-set stored a value  *)
(* narrower than 8 bytes into the payload, reading the payload back as a   *)
(* 64-bit integer yields that value zero-extended, whatever the payload    *)
(* held before.                                                            *)
(***************************************************************************)
ArgsAt(base) == [region |-> base.region, off |-> base.off, ty |-> "TVMFFIAny*"]

ZeroExtend(bytes, n) == [i \in 1 .. n |-> IF i <= Len(bytes) THEN bytes[i] ELSE 0]

ReadBackInt64(base, index) ==
  StructGetValue(mem, DT_int64,
                 CreateStructRefPtr(DT_int64, ArgsAt(base), index,
                                    "kTVMFFIAnyUnionValue"),
                 "kTVMFFIAnyUnionValue").bytes

C9_PayloadZeroFill ==
  (/\ last_op.op = "set"
   /\ last_op.kind = "kTVMFFIAnyUnionValue"
   /\ Len(last_op.value.bytes) < 8) =>
    ReadBackInt64(last_op.base, last_op.index)
      = ZeroExtend(last_op.value.bytes, 8)

\* a boolean was stored into a payload none of whose bytes was zero; the
\* 8-byte integer in the next element is as it was stored
C9_Witness ==
  /\ last_op.op = "set"
  /\ last_op.kind = "kTVMFFIAnyUnionValue"
  /\ last_op.value = [dtype |-> DT_bool, bytes |-> <<1>>]
  /\ last_op.index = 0
  /\ mem["args"][T_tvm_ffi_any.size + 15] = 8
  /\ mem["args"][0] = 255
  /\ ReadBackInt64(last_op.base, 0) = <<1, 0, 0, 0, 0, 0, 0, 0>>

(***************************************************************************)
(* C1: call status propagation.  When a runtime ABI call lowered through   *)
(* CheckCallSuccess returns a nonzero status, the generated function that  *)
(* made the call executes nothing but the check of that status and the     *)
(* return of the failure block, and it returns exactly that status; when   *)
(* the status is zero it goes on in the continuation block of the check.   *)
(***************************************************************************)
CheckOf(id) == CHOOSE c \in cg.checks : c.id = id

C1_CallStatusPropagated ==
  /\ \A k \in 1 .. Len(frames) :
       LET fr == frames[k]
       IN /\ fr.failed # NoFail =>
               /\ HasIns(fr)
               /\ \/ /\ InsOf(fr).op = "condbr"
                     /\ InsOf(fr).s = "eq0"
                     /\ InsOf(fr).v = fr.failed.id
                  \/ /\ InsOf(fr).op = "ret"
                     /\ fr.blk = CheckOf(fr.failed.id).fail
          /\ fr.passed # 0 =>
               /\ fr.regs[fr.passed] = 0
               /\ fr.blk = CheckOf(fr.passed).end
               /\ fr.ip = 1
  /\ last_ret.failed # NoFail => last_ret.value = last_ret.failed.status

\* the PrimFunc returned the status 2 of a failed call, and the continuation
\* block of that call holds the store of a later statement
C1_Witness ==
  /\ run_pc = "end"
  /\ last_ret.fn = 1
  /\ last_ret.failed.status = 2
  /\ last_ret.value = 2
  /\ \E i \in 1 .. Len(cg.blocks[CheckOf(last_ret.failed.id).end].code) :
       cg.blocks[CheckOf(last_ret.failed.id).end].code[i].op = "store"

(***************************************************************************)
(* C4: closure round trip.  For every list of captured variables bound in  *)
(* var_map_ (none, one or several), PackClosureData puts variable i into   *)
(* field i, and UnpackClosureData on the same type, pointer and list maps  *)
(* each variable to the value it had when packed; for the empty list Pack  *)
(* yields a null pointer and byte size 0 and Unpack an empty mapping.      *)
(***************************************************************************)
C4_ClosureRoundTrip ==
  LET c == closure
  IN /\ c.pc \in {"packed", "unpacked"} /\ Len(c.vfields) = 0 =>
          /\ c.cdata.addr = NullAddr
          /\ c.num_bytes = 0
     /\ c.pc \in {"packed", "unpacked"} =>
          \A i \in 1 .. Len(c.vfields) :
            Load(c.alloca, GEP(c.cdata.type, c.cdata.addr, 0, <<i - 1>>),
                 c.var_map_[c.vfields[i]].type.size)
              = c.var_map_[c.vfields[i]].bytes
     /\ c.pc = "unpacked" =>
          /\ DOMAIN c.vmap = {c.vfields[i] : i \in 1 .. Len(c.vfields)}
          /\ \A x \in DOMAIN c.vmap : c.vmap[x] = c.var_map_[x]

\* three variables of three types, in an order that is not the order of
\* their binding, went through a record with padding
C4_Witness ==
  /\ closure.pc = "unpacked"
  /\ closure.vfields = <<2, 3, 1>>
  /\ closure.var_map_[2].type = T_int8
  /\ closure.var_map_[3].type = T_float64
  /\ closure.var_map_[1].type = T_int32
  /\ closure.num_bytes = 24
  /\ closure.vmap[3] = ValueOf(3, T_float64)

(***************************************************************************)
(* C5: handle cache at generation time.  As claimed: a generated function  *)
(* that resolves the same external name twice holds the slow path (the     *)
(* call of get-function-by-name for that name) only once.                  *)
(***************************************************************************)
\* the places of the slow-path call for name nm in function fn
SlowPaths(fn, nm) ==
  {<<b, i>> \in (1 .. Len(cg.blocks)) \X (1 .. 12) :
     /\ cg.blocks[b].fn = fn
     /\ i <= Len(cg.blocks[b].code)
     /\ cg.blocks[b].code[i].op = "call"
     /\ cg.blocks[b].code[i].s = "TVMBackendGetFuncFromEnv"
     /\ cg.blocks[b].code[i].n = nm}

\* the places of the null check of the cell of nm in function fn
NullChecks(fn, nm) ==
  {<<b, i>> \in (1 .. Len(cg.blocks)) \X (1 .. 12) :
     /\ cg.blocks[b].fn = fn
     /\ i <= Len(cg.blocks[b].code)
     /\ cg.blocks[b].code[i].op = "load_cell"
     /\ cg.blocks[b].code[i].n = nm}

\* the resolutions of nm made while lowering into function fn
Resolutions(fn, nm) ==
  {k \in 1 .. Len(cg.resolved) : cg.resolved[k] = [name |-> nm, fn |-> fn]}

\* the cache cells created for nm
Cells(nm) == {k \in 1 .. Len(cg.globals) : cg.globals[k] = nm}

C5_SlowPathEmittedOnce ==
  \A fn \in 1 .. Len(cg.funcs), nm \in Names :
    Cardinality(SlowPaths(fn, nm)) <= 1

(***************************************************************************)
(* C5, amended: the cache cell of a name is created once in the module,    *)
(* by the first resolution; every resolution, the first and each later     *)
(* one, emits the null check and a slow path of its own.                   *)
(***************************************************************************)
C5_CellOncePathsPerResolution ==
  \A nm \in Names :
    /\ Cardinality(Cells(nm)) =
         IF \E k \in 1 .. Len(cg.resolved) : cg.resolved[k].name = nm
         THEN 1 ELSE 0
    /\ \A fn \in 1 .. Len(cg.funcs) :
         /\ Cardinality(SlowPaths(fn, nm)) = Cardinality(Resolutions(fn, nm))
         /\ Cardinality(NullChecks(fn, nm)) = Cardinality(Resolutions(fn, nm))

\* the PrimFunc resolved "f" twice: one cell, two slow paths
C5_Witness ==
  /\ cg.pc = "done"
  /\ Cardinality(Resolutions(1, "f")) = 2
  /\ Cardinality(SlowPaths(1, "f")) = 2
  /\ Cardinality(Cells("f")) = 1

(***************************************************************************)
(* C6: nesting rejection.  As claimed: no parallel-for is lowered as a     *)
(* per-task sub-range loop while the sub-range loop of another             *)
(* parallel-for is still open.                                             *)
(***************************************************************************)
Open(kind) == {k \in 1 .. Len(cg.stack) : cg.stack[k].kind = kind}

C6_NoSplitInsideSplit == Cardinality(Open("for")) <= 1

(***************************************************************************)
(* C7: one ParallelEnvironment.  As claimed: no parallel launch is begun   *)
(* while the closure body of another launch is still being lowered.        *)
(***************************************************************************)
C7_NoNestedLaunch == Cardinality(Open("launch")) <= 1

(***************************************************************************)
(* C8: context restore.  As claimed: when the lowering of a parallel       *)
(* launch, a static-init region or a compute scope completes, the context  *)
(* (function, variable bindings, analyzer, ParallelEnvironment) is what it *)
(* was when that lowering began, and the insert point is the continuation  *)
(* block of the call site in the original function.                        *)
(***************************************************************************)
Scopes == {"launch", "static", "compute"}

AtContinuation ==
  /\ cg.insert_block = cg.last_exit.cont
  /\ cg.blocks[cg.insert_block].fn = cg.last_exit.pre.function_

SameButEnvMarks(pre, post) ==
  /\ post.function_ = pre.function_
  /\ post.var_map_ = pre.var_map_
  /\ post.analyzer_ = pre.analyzer_
  /\ post.parallel_env_.penv = pre.parallel_env_.penv
  /\ post.parallel_env_.task_id = pre.parallel_env_.task_id
  /\ post.parallel_env_.num_task = pre.parallel_env_.num_task
  /\ post.parallel_env_.in_parallel_loop = pre.parallel_env_.in_parallel_loop

BarrierCallsIn(g) ==
  {g.blocks[x[1]].code[x[2]].v : x \in
     {y \in (1 .. Len(g.blocks)) \X (1 .. 12) :
        /\ y[2] <= Len(g.blocks[y[1]].code)
        /\ g.blocks[y[1]].code[y[2]].op = "call"
        /\ g.blocks[y[1]].code[y[2]].s = "TVMBackendParallelBarrier"}}

BarrierCalls == BarrierCallsIn(cg)

C11_BarrierStatusPropagated ==
  \A k \in 1 .. Len(frames) :
    LET fr == frames[k]
    IN \A id \in BarrierCalls \cap DOMAIN fr.regs :
         fr.regs[id] # 0 =>
           /\ HasIns(fr)
           /\ InsOf(fr).v = id
           /\ \/ InsOf(fr).op = "condbr" /\ InsOf(fr).s = "eq0"
              \/ InsOf(fr).op = "ret" /\ InsOf(fr).s = "val"

(***************************************************************************)
(* C12: barrier placement.  As claimed: the body of a barrier marker is    *)
(* entered, and the barrier call is emitted, only while an environment is  *)
(* active and no per-task sub-range loop is open.                          *)
(***************************************************************************)
C12_BarrierOutsideLoops ==
  [][/\ \A k \in 1 .. Len(cg'.stack) :
          cg'.stack[k].kind = "barrier" =>
            /\ cg'.stack[k].pre.parallel_env_.penv # 0
            /\ \A j \in 1 .. k - 1 : cg'.stack[j].kind # "for"
     /\ BarrierCallsIn(cg') # BarrierCallsIn(cg) =>
          /\ cg.parallel_env_.penv # 0
          /\ Open("for") = {}]_vars

(***************************************************************************)
(* C13: one cache cell per name and module.  In the module being built,    *)
(* every name that was resolved has exactly one cell among the module's    *)
(* globals, every resolution of the name loads and stores that cell, and   *)
(* the handle cache names exactly the cells of this module: after Init     *)
(* it is empty and no cell of an earlier module is used.                   *)
(***************************************************************************)
\* the cell instructions of the module: [n, t] of each load_cell, store_cell
CellUses ==
  {[n |-> cg.blocks[x[1]].code[x[2]].n, t |-> cg.blocks[x[1]].code[x[2]].t] :
     x \in {y \in (1 .. Len(cg.blocks)) \X (1 .. 12) :
              /\ y[2] <= Len(cg.blocks[y[1]].code)
              /\ cg.blocks[y[1]].code[y[2]].op \in {"load_cell", "store_cell"}}}

C13_OneCellPerNameAndModule ==
  /\ \A u \in CellUses :
       /\ u.t \notin cg.retired
       /\ Cardinality(Cells(u.n)) = 1
       /\ \A k \in Cells(u.n) : u.t = Hptr(cg, k)
  /\ \A e \in cg.func_handle_map_ :
       \E k \in Cells(e.name) : e.hptr = Hptr(cg, k)
  /\ \A nm \in Names :
       Cardinality(Cells(nm)) =
         IF \E u \in CellUses : u.n = nm THEN 1 ELSE 0

\* the second module resolved "f" twice after the first module had resolved
\* it: one cell, of the second module
C13_Witness ==
  /\ cg.module_ = 2
  /\ cg.retired = {11}
  /\ Cardinality(Resolutions(1, "f")) = 2
  /\ Cells("f") = {1}
  /\ [n |-> "f", t |-> 21] \in CellUses

(***************************************************************************)
(* C14: run-time memoization.  In a run of the generated module, once the  *)
(* cell of a name holds a non-null handle: the cell keeps it; no           *)
(* get-function-by-name call for that name is executed; every null check   *)
(* of the cell loads that handle and branches to the fast path; and the    *)
(* handle every resolution of that name yields is the stored one.          *)
(***************************************************************************)
CellOf(nm) == Hptr(cg, CHOOSE k \in Cells(nm) : TRUE)

C14_MemoizedHandle ==
  [][\A nm \in Names :
       (Cells(nm) # {} /\ cells[CellOf(nm)] # 0 /\ Running) =>
         LET i == InsOf(Cur)
             code == cg.blocks[Cur.blk].code
             after == frames'[Len(frames)]
         IN /\ cells'[CellOf(nm)] = cells[CellOf(nm)]
            /\ i.n = nm =>
                 /\ ~(i.op = "call" /\ i.s = "TVMBackendGetFuncFromEnv")
                 /\ i.op = "load_cell" => after.regs[i.v] = cells[CellOf(nm)]
                 /\ i.op = "phi" => after.regs[i.v] = cells[CellOf(nm)]
            /\ (/\ i.op = "condbr"
                /\ Cur.ip > 1
                /\ code[Cur.ip - 1].op = "load_cell"
                /\ code[Cur.ip - 1].n = nm) =>
                 /\ after.blk = i.t
                 /\ cg.blocks[i.t].code[1].op = "phi"
                 /\ cg.blocks[i.t].code[1].n = nm
                 /\ cg.blocks[i.t].code[1].t = Cur.blk]_vars

\* a later resolution of "f" took the fast path and yielded the handle 2
\* an earlier one had stored; the lookup had been called once
C14_Witness ==
  /\ Running
  /\ InsOf(Cur).op = "call"
  /\ InsOf(Cur).s = "TVMFFIFunctionCall"
  /\ InsOf(Cur).n = "f"
  /\ Cur.ip = 2
  /\ cg.blocks[Cur.blk].code[1].op = "phi"
  /\ Cur.prev = cg.blocks[Cur.blk].code[1].t
  /\ Cur.regs[InsOf(Cur).e] = 2
  /\ cells[CellOf("f")] = 2
  /\ Cardinality(Resolutions(Cur.fn, "f")) = 2

(***************************************************************************)
(* C15: assertion lowering.  In a run of the generated code, the branch of *)
(* an assert goes to the fail block when the condition is false and to the *)
(* end block, where the body is, when it is true.  The fail block is       *)
(* entered only by that branch with a false condition; it raises an error  *)
(* of kind "RuntimeError" whose message names the condition and then       *)
(* returns -1 from the function, and it holds nothing else.  The error is  *)
(* raised nowhere else.                                                    *)
(***************************************************************************)
IsRaise(i) == i.op = "call" /\ i.s = "TVMFFIErrorSetRaisedFromCStr"

C15_AssertLowering ==
  [][Running =>
       LET i == InsOf(Cur)
           code == cg.blocks[Cur.blk].code
           here == cg.blocks[Cur.blk].name
       IN /\ (i.op = "condbr" /\ cg.blocks[i.e].name = "assert_fail") =>
               LET after == frames'[Len(frames)]
                   fail == cg.blocks[i.e].code
               IN /\ code[Cur.ip - 1].op = "eval"
                  /\ code[Cur.ip - 1].v = i.v
                  /\ Len(fail) = 2
                  /\ IsRaise(fail[1])
                  /\ fail[1].n = "RuntimeError"
                  /\ CondOfMsg(fail[1].e) = code[Cur.ip - 1].t
                  /\ fail[2] = Ins("ret", "const", "", -1, 0, 0)
                  /\ after.ip = 1
                  /\ after.fn = Cur.fn
                  /\ after.blk = IF Cur.regs[i.v] = 0 THEN i.e ELSE i.t
                  /\ cg.blocks[i.t].name = "assert_end"
          /\ IsRaise(i) => here = "assert_fail"
          /\ here = "assert_fail" =>
               LET br == cg.blocks[Cur.prev].code[Len(cg.blocks[Cur.prev].code)]
               IN /\ br.op = "condbr"
                  /\ br.e = Cur.blk
                  /\ Cur.regs[br.v] = 0
                  /\ i.op = "ret" =>
                       /\ last_ret'.value = -1
                       /\ last_ret'.fn = Cur.fn
                       /\ Len(frames') = Len(frames) - 1]_vars

\* the assertion of the PrimFunc held and its body, a launch, ran; the
\* closure failed the assertion of condition 2, which has a message, and
\* returned -1 to the launch
C15_Witness ==
  /\ Running
  /\ Len(frames) = 1
  /\ cg.blocks[Cur.blk].name = "assert_end"
  /\ InsOf(Cur).op = "condbr"
  /\ Cur.regs[InsOf(Cur).v] = -1
  /\ last_ret.fn = 2
  /\ last_ret.value = -1
  /\ \E b \in 1 .. Len(cg.blocks) :
       /\ cg.blocks[b].fn = 2
       /\ cg.blocks[b].name = "assert_fail"
       /\ cg.blocks[b].code[1].e = AssertMsg(2, TRUE)

(***************************************************************************)
(* C16: startup registration.  When the registration function exists, the  *)
(* startup function emitted at finalization holds one registration call    *)
(* per entry of the exported-symbol table, in order: the module context    *)
(* first, then each function added with a kGlobalSymbol attribute, under   *)
(* that name and with that function; a function without the attribute      *)
(* is not registered.                                                      *)
(***************************************************************************)
\* the functions added to the module that carry the attribute
Exported == {k \in 1 .. Len(sys.added) : sys.added[k] # NoSymbol}

C16_StartupRegistersTable ==
  (sys.pc = "final" /\ sys.f_tvm_register_system_symbol_) =>
    LET calls == sys.startup.calls
    IN /\ sys.startup.emitted
       /\ Len(calls) = Len(sys.export_system_symbols_)
       /\ Len(calls) = 1 + Cardinality(Exported)
       /\ calls[1].name = CtxSymbol
       /\ calls[1].ptr = 0
       /\ \A k \in Exported :
            LET j == 1 + Cardinality({x \in Exported : x <= k})
            IN /\ calls[j].name = sys.added[k]
               /\ calls[j].ptr = k
       /\ \A j \in 1 .. Len(calls) :
            /\ calls[j].callee = "TVMBackendRegisterSystemLibSymbol"
            /\ calls[j].name = sys.export_system_symbols_[j].name
            /\ calls[j].ptr = sys.export_system_symbols_[j].value

\* the second module of the session: three functions were added, the
\* second of them without the attribute
C16_Witness ==
  /\ sys.pc = "final"
  /\ sys.inits = 2
  /\ sys.f_tvm_register_system_symbol_
  /\ sys.added = <<"b", NoSymbol, "a">>
  /\ Len(sys.startup.calls) = 3
  /\ sys.startup.calls[2] = [callee |-> "TVMBackendRegisterSystemLibSymbol",
                             name |-> "b", ptr |-> 1]
  /\ sys.startup.calls[3].ptr = 3

(***************************************************************************)
(* C17: static init and parallel environments exclude each other.  The     *)
(* lowering of a static-init region begun while an environment is active   *)
(* ends in a fatal error; and whenever the visitor lowers into a           *)
(* static-init callback, no environment is active, and none was when the   *)
(* region began.                                                           *)
(***************************************************************************)
IsStaticLambda(g, fn) == g.funcs[fn].name = "__tvm_static_init_lambda"

C17_StaticInitWithoutEnv ==
  [][/\ (/\ Len(cg'.funcs) > Len(cg.funcs)
         /\ IsStaticLambda(cg', Len(cg'.funcs))
         /\ cg.parallel_env_.penv # 0) => cg'.pc = "fatal"
     /\ (cg'.pc = "body" /\ IsStaticLambda(cg', cg'.function_)) =>
          cg'.parallel_env_.penv = 0
     /\ \A k \in 1 .. Len(cg'.stack) :
          cg'.stack[k].kind = "static" =>
            cg'.stack[k].pre.parallel_env_.penv = 0]_vars

\* a static-init region inside the closure of a launch: the compilation
\* was aborted after the callback function had been created
C17_Witness ==
  /\ cg.pc = "fatal"
  /\ IsStaticLambda(cg, Len(cg.funcs))
  /\ cg.parallel_env_.penv # 0
  /\ Open("launch") # {}
  /\ Open("static") = {}

(***************************************************************************)
(* C18: unsupported payload type.  A struct-get or struct-set of the       *)
(* tagged-value payload with a type that is not boolean, 64-bit integer,   *)
(* 64-bit float or handle ends the lowering in a fatal error, and          *)
(* CreateStructRefPtr returns no typed pointer; so does one with a field   *)
(* tag outside the known set.  With a listed type and a known tag the      *)
(* payload access is lowered.                                              *)
(***************************************************************************)
PayloadType(t) ==
  /\ t.lanes = 1
  /\ \/ t.code = "bool"
     \/ t.code = "int" /\ t.bits = 64
     \/ t.code = "float" /\ t.bits = 64
     \/ t.code = "handle"

C18_UnsupportedPayloadIsFatal ==
  last_op.op # "none" =>
    /\ (\/ last_op.kind = "kTVMFFIAnyUnionValue" /\ ~PayloadType(last_op.t)
        \/ last_op.kind \notin ArrKinds \cup AnyKinds) =>
         /\ struct_fatal
         /\ last_op.op = "fatal"
         /\ last_op.ref = FatalRef
    /\ (last_op.kind = "kTVMFFIAnyUnionValue" /\ PayloadType(last_op.t)) =>
         /\ ~struct_fatal
         /\ last_op.op \in {"get", "set"}
         /\ ~last_op.ref.fatal
    /\ struct_fatal <=> last_op.op = "fatal"

\* after a 64-bit integer had been stored into the payload, a struct-set of
\* a 32-bit integer into the payload next to it was fatal
C18_Witness ==
  /\ struct_fatal
  /\ last_op.op = "fatal"
  /\ last_op.kind = "kTVMFFIAnyUnionValue"
  /\ last_op.t = DT_int32
  /\ last_op.value.dtype = DT_int32
  /\ last_op.index = 1
  /\ mem["args"][15] = 0

(***************************************************************************)
(* C19: traced call result selection.  As claimed: the join of a traced    *)
(* call has two incoming edges, from the update block and from the block   *)
(* that ends in the branch on the type index, and these are its            *)
(* predecessors; in a run the join yields the traced value when the type   *)
(* index is "no value" and the result of the call otherwise.               *)
(***************************************************************************)
\* the blocks that end in a branch to block b
Preds(b) ==
  {x \in 1 .. Len(cg.blocks) :
     /\ cg.blocks[x].code # <<>>
     /\ LET last == cg.blocks[x].code[Len(cg.blocks[x].code)]
        IN \/ last.op \in {"br", "condbr"} /\ last.t = b
           \/ last.op = "condbr" /\ last.e = b}

\* the blocks that end in the branch on the type index of the join in b
TypeIndexBranches(b) ==
  {x \in Preds(b) :
     LET last == cg.blocks[x].code[Len(cg.blocks[x].code)]
     IN last.op = "condbr" /\ last.s = "ne0" /\ last.e = b}

C19_TraceJoin ==
  [][\A b \in TraceJoins(cg) :
       LET phi == cg.blocks[b].code[1]
       IN /\ cg.blocks[phi.t].name = "update_block"
          /\ TypeIndexBranches(b) = {phi.u}
          /\ Preds(b) = {phi.t, phi.u}
          /\ (Running /\ Cur.blk = b /\ Cur.ip = 1) =>
               LET x == CHOOSE y \in TypeIndexBranches(b) : TRUE
                   tidx == cg.blocks[x].code[Len(cg.blocks[x].code)].v
                   after == frames'[Len(frames)]
               IN after.regs[phi.v] = IF Cur.regs[tidx] = 0
                                      THEN Cur.regs[phi.w]
                                      ELSE Cur.regs[phi.e]]_vars

(***************************************************************************)
(* C20: throw-last-error.  As claimed: wherever the intrinsic is lowered,  *)
(* the function returns -1 at that point, the lowering goes on in a fresh  *)
(* block that has no predecessor, and no instruction lowered after the     *)
(* intrinsic in the same function is ever executed.                        *)
(***************************************************************************)
\* the places of the instructions lowered into the function after throw th
LoweredAfter(th) ==
  {p \in (1 .. Len(cg.blocks)) \X (1 .. 12) :
     /\ cg.blocks[p[1]].fn = th.fn
     /\ p[2] <= Len(cg.blocks[p[1]].code)
     /\ p[1] \in DOMAIN th.sizes => p[2] > th.sizes[p[1]]}

C20_ThrowEndsFunction ==
  \A th \in cg.throws :
    /\ cg.blocks[th.at[1]].code[th.at[2]] = Ins("ret", "const", "", -1, 0, 0)
    /\ th.cont # 0
    /\ cg.blocks[th.cont].name = "cont"
    /\ cg.blocks[th.cont].fn = th.fn
    /\ th.cont \notin DOMAIN th.sizes
    /\ Preds(th.cont) = {}
    /\ \A k \in 1 .. Len(frames) :
         <<frames[k].blk, frames[k].ip>> \notin LoweredAfter(th)

(***************************************************************************)
(* C21: failed lookup.  In a run of the generated module, when the         *)
(* get-function-by-name call of a slow path returns a nonzero status: the  *)
(* cell of that name was null and stays null; the function that made the   *)
(* call executes nothing but the check and the return of that status, so   *)
(* the handle is not loaded, stored or called; and the function returns    *)
(* the status.  A cell is stored only in the continuation block of a       *)
(* lookup that returned 0, and a null check that reads a null cell goes to *)
(* the slow path, which calls the lookup for that name again.              *)
(***************************************************************************)
IsLookup(i) == i.op = "call" /\ i.s = "TVMBackendGetFuncFromEnv"

\* the instruction that defines the value id
DefOf(id) == cg.blocks[id \div 100].code[id % 100]

C21_FailedLookupRetried ==
  [][Running =>
       LET i == InsOf(Cur)
           code == cg.blocks[Cur.blk].code
           after == frames'[Len(frames)]
       IN /\ IsLookup(i) => cells[CellOf(i.n)] = 0
          /\ (Cur.failed # NoFail /\ IsLookup(DefOf(Cur.failed.id))) =>
               /\ cells[CellOf(DefOf(Cur.failed.id).n)] = 0
               /\ cells' = cells
               /\ \/ /\ i.op = "condbr"
                     /\ i.v = Cur.failed.id
                     /\ after.blk = i.e
                     /\ after.failed = Cur.failed
                  \/ /\ i.op = "ret"
                     /\ last_ret'.fn = Cur.fn
                     /\ last_ret'.value = Cur.failed.status
          /\ i.op = "store_cell" =>
               \E c \in cg.checks :
                 /\ c.end = Cur.blk
                 /\ IsLookup(DefOf(c.id))
                 /\ DefOf(c.id).n = i.n
                 /\ Cur.regs[c.id] = 0
          /\ (/\ i.op = "condbr"
              /\ Cur.ip > 1
              /\ code[Cur.ip - 1].op = "load_cell"
              /\ cells[code[Cur.ip - 1].t] = 0) =>
               /\ after.blk = i.e
               /\ \E k \in 1 .. Len(cg.blocks[i.e].code) :
                    /\ IsLookup(cg.blocks[i.e].code[k])
                    /\ cg.blocks[i.e].code[k].n = code[Cur.ip - 1].n
                    /\ \A j \in 1 .. k - 1 :
                         cg.blocks[i.e].code[j].op = "load_ctx"]_vars

\* the lookup of "f" that failed with status 2 in the call before, which
\* returned 2, is about to be called again, the cell still null
C21_Witness ==
  /\ Running
  /\ IsLookup(InsOf(Cur))
  /\ InsOf(Cur).n = "f"
  /\ last_ret.fn = 1
  /\ last_ret.value = 2
  /\ last_ret.failed.id = InsOf(Cur).v
  /\ cells[CellOf("f")] = 0

(***************************************************************************)
(* C22: stride partition.  As claimed: a parallel-for is lowered with the  *)
(* stride partition exactly when the body of a stride-pattern marker of    *)
(* its launch holds it; one lowered after that body has ended is lowered   *)
(* with the block partition.                                               *)
(***************************************************************************)
C22_StrideOnlyInsideMarker ==
  \A k \in 1 .. Len(cg.loops) :
    cg.loops[k].partition = "stride" <=> cg.loops[k].in_marker

(***************************************************************************)
(* C23: barrier emission.  As claimed: a barrier call is emitted only      *)
(* after a parallel-for has been lowered in the active environment.        *)
(***************************************************************************)
\* the parallel-fors lowered so far in the active environment
LoopsOfEnv(g) ==
  {k \in 1 .. Len(g.loops) : g.loops[k].penv = g.parallel_env_.penv}

C24_ComputeScopeNeverInline ==
  scope.pc = "body" =>
    /\ scope.NoInline
    /\ \A i \in 0 .. Len(scope.vargs) - 1 :
         i \in scope.NoAlias <=>
           (IsHandle(scope.vargs[i + 1])
              /\ scope.vargs[i + 1] \notin scope.alias_var_set_)

(***************************************************************************)
(* C25: the parallel-loop counter.  When CreateParallelLaunch has visited  *)
(* the body and goes on, the counter of the launch's environment equals    *)
(* the number of parallel-fors lowered as per-task loops in that           *)
(* environment; the compilation is aborted exactly when that number is 0,  *)
(* and otherwise the launch completes.                                     *)
(***************************************************************************)
\* the step is the rest of CreateParallelLaunch after the visit of the body
LaunchEnds ==
  /\ cg.pc = "body"
  /\ cg.stack # <<>>
  /\ Top(cg).kind = "launch"
  /\ cg'.nstmts = cg.nstmts
  /\ cg' # cg

C25_LoopCountAtLaunchEnd ==
  [][LaunchEnds =>
       LET n == Cardinality(LoopsOfEnv(cg))
       IN /\ cg.parallel_env_.penv # 0
          /\ cg.parallel_env_.parallel_loop_count = n
          /\ n = 0 <=> cg'.pc = "fatal"
          /\ n # 0 =>
               /\ cg'.last_exit.kind = "launch"
               /\ cg'.stack = SubSeq(cg.stack, 1, Len(cg.stack) - 1)]_vars

\* a launch has completed in whose environment two parallel-fors were
\* lowered
C25_Witness ==
  /\ cg.last_exit.kind = "launch"
  /\ cg.stack = <<>>
  /\ Len(cg.loops) = 2
  /\ cg.loops[1].penv = cg.loops[2].penv
  /\ cg.loops[1].penv # 0

(***************************************************************************)
(* C26: block bounds in range.  As claimed: for every extent >= 0 and      *)
(* num_task >= 1 of the extent's type and every task id below num_task,    *)
(* the bounds the block partition computes in wraparound arithmetic        *)
(* satisfy 0 <= begin <= end <= extent.                                    *)
(***************************************************************************)
C26_BlockBoundsInRange ==
  ~rt_stride =>
    \A t \in Tasks :
      task[t].pc # "idle" =>
        /\ 0 <= task[t].begin
        /\ task[t].begin <= task[t].end
        /\ task[t].end <= rt_extent

(***************************************************************************)
(* C27: the current pass context.  After every EnterWithScope and          *)
(* ExitWithScope call of the thread, Current() is the context entered      *)
(* latest among those not exited yet, and the default context when there   *)
(* is none.  An ExitWithScope on an empty stack or on a context that is    *)
(* not on top is a fatal error that leaves the stack, the instruments and  *)
(* their callbacks alone; a successful EnterWithScope makes its context    *)
(* the current one, and one whose instrument entry fails pushes nothing.   *)
(***************************************************************************)
\* the context entered latest among the entries not exited
MostRecent(p) ==
  LET live == {x \in 1 .. Len(p.hist) : p.hist[x].live}
  IN IF live = {} THEN DefaultContext ELSE p.hist[MaxOf(live)].ctx

C27_CurrentIsInnermost ==
  [][pass.pc = "ctx" =>
       LET op == pass'.last.op
           c == pass'.last.ctx
           thrown == pass'.last.thrown
       IN /\ Current(pass') = MostRecent(pass')
          /\ (op = "exit" /\ (pass.context_stack = <<>> \/ Current(pass) # c)) =>
               /\ thrown = "fatal"
               /\ pass'.context_stack = pass.context_stack
               /\ pass'.instruments = pass.instruments
               /\ pass'.calls = <<>>
          /\ (op = "exit" /\ pass.context_stack # <<>> /\ Current(pass) = c) =>
               /\ thrown # "fatal"
               /\ pass'.context_stack =
                    SubSeq(pass.context_stack, 1, Len(pass.context_stack) - 1)
          /\ (op = "enter" /\ thrown = "none") =>
               /\ Current(pass') = c
               /\ pass'.context_stack = Append(pass.context_stack, c)
          /\ (op = "enter" /\ thrown # "none") =>
               pass'.context_stack = pass.context_stack]_vars

\* context 1 was entered, then context 2, and an ExitWithScope on context
\* 1 has just failed: context 2 is still the current one
C27_Witness ==
  /\ pass.last.op = "exit"
  /\ pass.last.ctx = 1
  /\ pass.last.thrown = "fatal"
  /\ pass.context_stack = <<1, 2>>
  /\ Current(pass) = 2

(***************************************************************************)
(* C28: instrument entry failure.  As claimed: when EnterPassContext of    *)
(* instrument k of the context throws, the callbacks called are            *)
(* EnterPassContext of instruments 1..k in order and then ExitPassContext  *)
(* of instruments k-1..1, once each, and the context's instrument list is  *)
(* empty afterwards; when none throws, EnterPassContext is called on all,  *)
(* no ExitPassContext is called and the list is unchanged.                 *)
(***************************************************************************)
C28_EnterFailureUndone ==
  [][(pass.pc = "ctx" /\ pass'.last.op = "enter") =>
       LET c == pass'.last.ctx
           k == pass'.last.k
           ins == pass.instruments[c]
       IN IF k = 0
          THEN /\ pass'.calls = [x \in 1 .. Len(ins) |->
                                   Call("EnterPassContext", ins[x])]
               /\ pass'.instruments = pass.instruments
          ELSE /\ pass'.calls =
                    [x \in 1 .. k |-> Call("EnterPassContext", ins[x])]
                      \o [x \in 1 .. k - 1 |->
                            Call("ExitPassContext", ins[k - x])]
               /\ pass'.instruments[c] = <<>>
               /\ pass'.pc = "ctx"]_vars

(***************************************************************************)
(* C29: instruments around a pass.  In every call of a pass under the      *)
(* context: when the pass is not in the required list and ShouldRun of     *)
(* some instrument returns false, the body is not executed, neither        *)
(* RunBeforePass nor RunAfterPass is called and the module is returned as  *)
(* it was; otherwise RunBeforePass of every instrument in list order, the  *)
(* body, and RunAfterPass of every instrument in list order follow each    *)
(* other, and the module is the body's result.  ShouldRun is not asked for *)
(* a required pass.                                                        *)
(***************************************************************************)
\* the calls of the last pass, the ShouldRun calls left out
Unasked(calls) == SelectSeq(calls, LAMBDA e : e.f # "ShouldRun")

RECURSIVE Expected(_, _, _)
Expected(p, passes, n) ==
  IF n > Len(passes) THEN <<>>
  ELSE (IF PassEnabled(p, GetPass(passes[n]))
        THEN GetPass(passes[n]).required \o <<passes[n]>>
        ELSE <<>>) \o Expected(p, passes, n + 1)

C30_DisabledNeverRuns ==
  pass.passes # <<>> =>
    /\ \A x \in 1 .. Len(pass.mod) : pass.mod[x] \notin pass.disabled_pass
    /\ (pass.pc = "ran" /\ ~pass.vetoed) =>
         pass.mod = Expected(pass, pass.passes, 1)

(***************************************************************************)
(* Specifications.                                                         *)
(***************************************************************************)
InitPartition == PartStart /\ StructIdle /\ GenIdle /\ RunIdle /\ ClosureIdle /\ SysIdle /\ ExtIdle

SpecPartition == InitPartition /\ [][PartNext]_vars

InitStruct == StructStart /\ PartIdle /\ GenIdle /\ RunIdle /\ ClosureIdle /\ SysIdle /\ ExtIdle

SpecStruct == InitStruct /\ [][StructNext]_vars

InitField == StructStart /\ PartIdle /\ GenIdle /\ RunIdle /\ ClosureIdle /\ SysIdle /\ ExtIdle

SpecField == InitField /\ [][FieldNext]_vars

InitLower == GenStart /\ RunIdle /\ PartIdle /\ StructIdle /\ ClosureIdle /\ SysIdle /\ ExtIdle

SpecLower == InitLower /\ [][LowerNext]_vars

InitCall == GenStart /\ RunIdle /\ PartIdle /\ StructIdle /\ ClosureIdle /\ SysIdle /\ ExtIdle

SpecCall == InitCall /\ [][CallNext]_vars

InitBarrier == GenStart /\ RunIdle /\ PartIdle /\ StructIdle /\ ClosureIdle /\ SysIdle /\ ExtIdle

SpecBarrier == InitBarrier /\ [][BarrierNext]_vars

InitModules == GenStart /\ RunIdle /\ PartIdle /\ StructIdle /\ ClosureIdle /\ SysIdle /\ ExtIdle

SpecModule == InitModules /\ [][ModuleNext]_vars

InitAssert == GenStart /\ RunIdle /\ PartIdle /\ StructIdle /\ ClosureIdle /\ SysIdle /\ ExtIdle

SpecAssert == InitAssert /\ [][AssertNext]_vars

InitStartup == SysStart /\ PartIdle /\ StructIdle /\ GenIdle /\ RunIdle /\ ClosureIdle /\ ExtIdle

SpecStartup == InitStartup /\ [][StartupNext]_vars

InitTrace == GenStart /\ RunIdle /\ PartIdle /\ StructIdle /\ ClosureIdle /\ SysIdle /\ ExtIdle

SpecTrace == InitTrace /\ [][TraceNext]_vars

InitThrow == GenStart /\ RunIdle /\ PartIdle /\ StructIdle /\ ClosureIdle /\ SysIdle /\ ExtIdle

SpecThrow == InitThrow /\ [][ThrowNext]_vars

InitRetry == GenStart /\ RunIdle /\ PartIdle /\ StructIdle /\ ClosureIdle /\ SysIdle /\ ExtIdle

SpecRetry == InitRetry /\ [][RetryNext]_vars

InitScope == ScopeIdle /\ PassIdle /\ PartIdle /\ StructIdle /\ GenIdle /\ RunIdle /\ ClosureIdle /\ SysIdle

SpecScope == InitScope /\ [][ScopeNext]_vars

InitContext == ContextStart /\ ScopeIdle /\ PartIdle /\ StructIdle /\ GenIdle /\ RunIdle /\ ClosureIdle /\ SysIdle

SpecContext == InitContext /\ [][ContextNext]_vars

InitSequential == PassStart /\ ScopeIdle /\ PartIdle /\ StructIdle /\ GenIdle /\ RunIdle /\ ClosureIdle /\ SysIdle

SpecSequential == InitSequential /\ [][SequentialNext]_vars

InitClosure == ClosureStart /\ PartIdle /\ StructIdle /\ GenIdle /\ RunIdle /\ SysIdle /\ ExtIdle

SpecClosure == InitClosure /\ [][ClosureNext]_vars

=============================================================================
